---- MODULE Spec2Model ----
(***************************************************************************)
(* Model of repo-cli's `craft` command: the Interactive Plan Builder       *)
(* (craft/tui.rs), the Rebase Script Generator and Executor                *)
(* (craft/execute.rs), the Patch Synthesizer (craft/split.rs) and the      *)
(* command itself with its guards (craft/mod.rs).                          *)
(*                                                                         *)
(* Conventions.  Rust vectors are functions over 0..len-1, so that indices *)
(* read as in the source.  A CommitInfo is represented by its index in the *)
(* list load_commits returned (0 = newest): that index determines its id,  *)
(* short_id, message and parents.  Texts are opaque strings.               *)
(***************************************************************************)
EXTENDS Integers, Sequences, FiniteSets, TLC

(* ------------------------------ bounds --------------------------------- *)
\* number of commits load_commits returned
NumCommits == 3
\* the digit keys pressed in SplitView are 1..MaxDigit and TopDigit (the code
\* accepts 1..9)
MaxDigit == 2
\* cap on next_group, which the 'g' key increments without limit
MaxNextGroup == 11
\* number of key events of a planning session
MaxKeys == 11
\* length of the hunk lists handed to the Patch Synthesizer
MaxHunks == 3
\* length of the todo texts handed to the sequence transform
MaxLines == 3
\* number of message files, and of invocations of the message injector
MaxMsgs == 3
MaxInvocations == 7
\* a plan long enough for its todo text to have more than nine lines
LongPlan == 9
\* number of hunks of a raw diff, and of lines of a raw hunk
MaxRawHunks == 2
MaxRawLines == 2
\* number of key events of a planning session that run_craft starts
CraftKeys == 6
\* a desired order longer than the awk script's offset for unmatched lines
BigPlan == 1003

(* -------------------------- program constants -------------------------- *)
\* vec![String::new(); 10]
SplitMsgSlots == 10
\* c.is_ascii_digit() && c != '0': the largest digit key
TopDigit == 9
\* order[NR] = NR + 1000 in the generated awk program
UnmatchedBase == 1000

(* ------------------------------ helpers -------------------------------- *)
Idx(f) == DOMAIN f
VLen(f) == Cardinality(DOMAIN f)
Min(a, b) == IF a < b THEN a ELSE b
SatSub1(a) == IF a > 0 THEN a - 1 ELSE 0
EmptyVec == [i \in {} |-> 0]
\* Vec::push on a 0-based vector
Push(f, x) == [i \in 0..VLen(f) |-> IF i < VLen(f) THEN f[i] ELSE x]

CommitIds == 0..(NumCommits - 1)

\* CommitInfo.message of the loaded commits (commit.summary())
MessageTable == <<"m0", "m1", "m2", "m3", "m4", "m5">>
CommitMessage(c) == MessageTable[c + 1]
\* texts the user can type
TypedTexts == {"w1", "w2"}

\* format!("split part {}", g)
SplitPartTable == <<"split part 1", "split part 2", "split part 3", "split part 4",
                    "split part 5", "split part 6", "split part 7", "split part 8",
                    "split part 9", "split part 10", "split part 11", "split part 12">>
SplitPart(g) == SplitPartTable[g]

(* --------------------------- repository data --------------------------- *)
\* Number of hunks in the diff of commit c against its first parent.
HunkCount(c) == IF c % 3 = 0 THEN 2 ELSE IF c % 3 = 1 THEN 1 ELSE 0
\* File of the j-th hunk of commit c: hunks come out of get_commit_hunks
\* delta by delta, so the hunks of one file are adjacent.
FileOf(c, j) == IF c % 2 = 0 THEN "x" ELSE "y"
\* The hunk list get_commit_hunks returns for commit c.
\* A Hunk: file_path, header (the "@@ ... @@" text, here the pair that
\* identifies the hunk) and lines; a DiffLine is its origin and its content,
\* which may or may not end in a newline.
Hunk(f, c, j, ls) == [file_path |-> f, header |-> [commit |-> c, n |-> j], lines |-> ls]
DiffLine(o, t, nl) == [origin |-> o, text |-> t, newline |-> nl]
HunkLines(j) == [i \in 0..0 |-> DiffLine(IF j % 2 = 0 THEN "+" ELSE "-", "a", j % 2 = 0)]
RepoHunks(c) ==
  [j \in 0..(HunkCount(c) - 1) |-> Hunk(FileOf(c, j), c, j, HunkLines(j))]

(* ------------------------------ actions -------------------------------- *)
Pick == [kind |-> "Pick"]
Reword(m) == [kind |-> "Reword", msg |-> m]
Squash(i, m) == [kind |-> "Squash", into_idx |-> i, message |-> m]
Fixup(i) == [kind |-> "Fixup", into_idx |-> i]
Drop == [kind |-> "Drop"]
Split(gs) == [kind |-> "Split", groups |-> gs]
Edit == [kind |-> "Edit"]
\* Option<String>::None
None == "None"

TodoEntry(i, a) == [original_idx |-> i, action |-> a]
TodoEntryPick(i) == TodoEntry(i, Pick)

VARIABLES
  commits,          \* App.commits: display order, each element a loaded commit
  entries,          \* App.entries
  selected,         \* App.selected
  cursor,           \* App.cursor
  mode,             \* App.mode
  result,           \* App.result / should_quit: "none", "Cancel", "Execute"
  reword_buffer,    \* App.reword_buffer
  hunks,            \* App.hunks
  hunk_cursor,      \* App.hunk_cursor
  hunk_groups,      \* App.hunk_groups
  split_messages,   \* App.split_messages
  split_msg_cursor, \* App.split_msg_cursor
  split_editing_msg,\* App.split_editing_msg
  next_group,       \* App.next_group
  squash_source,    \* App.squash_source
  hunks_cache,      \* App.hunks_cache
  status,           \* App.status, the format arguments left as {}
  keys,             \* number of key events handled so far
  p_hunks,          \* generate_patch_for_hunks: the hunks argument
  p_selected,       \* generate_patch_for_hunks: the selected argument
  p_patch,          \* generate_patch_for_hunks: the returned patch
  p_done,           \* generate_patch_for_hunks has returned
  x_pc,             \* execute_craft_plan: the statement reached
  x_tmp,            \* the temporary directory exists
  x_msgs,           \* the message files msg_0, msg_1, ... in the directory
  x_counter,        \* the content of the counter file
  x_script,         \* split_script: whether it is Some, and the commands of auto-split.sh
  x_engine,         \* the engine: the todo it replays, where it stopped, why
  x_output,         \* `output` of the initial rebase invocation
  x_log,            \* the message-editor invocations of the engine
  x_ran,            \* run_split_automation was called, and where the engine stood
  x_resets,         \* the `git reset HEAD^` commands the split script ran
  x_outcome,        \* what execute_craft_plan returned
  s_pc,             \* seq-editor.sh: "idle", "plan", "written", "once", "twice"
  s_script,         \* seq-editor.sh: its sed commands and the awk script's desired order
  s_todo,           \* the todo text handed to seq-editor.sh
  s_out,            \* the todo text after seq-editor.sh has run on it
  s_out2,           \* the todo text after seq-editor.sh has run on its own output
  c_cmd,            \* the command: "craft" (run_craft) or "reword" (run_reword)
  c_pc,             \* run_craft / run_reword: the statement reached
  c_repo,           \* the repository: HEAD detached or not, the status flags present
  c_keys,           \* number of key events the user types in the session
  c_loaded,         \* load_commits was called
  c_upstream,       \* the repository: the branch's upstream and the origin reference
  c_warned,         \* the force-push warning was printed
  c_ret,            \* what the command returned: "none", "Ok", "Err"
  d_pc,             \* get_commit_hunks: "idle", "start", "returned"
  d_diff,           \* get_commit_hunks: the hunks of the diff libgit2 computed
  d_result          \* get_commit_hunks: the Result it returned

appVars == <<commits, entries, selected, cursor, mode, result, reword_buffer,
             hunks, hunk_cursor, hunk_groups, split_messages, split_msg_cursor,
             split_editing_msg, next_group, squash_source, hunks_cache>>
patchVars == <<p_hunks, p_selected, p_patch, p_done>>
execVars == <<x_pc, x_tmp, x_msgs, x_counter, x_script, x_engine, x_output,
              x_log, x_ran, x_resets, x_outcome>>
seqVars == <<s_pc, s_script, s_todo, s_out, s_out2>>
craftVars == <<c_cmd, c_pc, c_repo, c_keys, c_loaded, c_upstream, c_warned, c_ret>>
decVars == <<d_pc, d_diff, d_result>>
vars == <<appVars, status, keys, patchVars, execVars, seqVars, craftVars, decVars>>

\* variant: the element at j is overwritten, not exchanged
SwapLossy(f, i, j) == [f EXCEPT ![j] = f[i]]

\* Vec::swap
Swap(f, i, j) == [f EXCEPT ![i] = f[j], ![j] = f[i]]

\* App::new
AppNew ==
  /\ commits = [i \in CommitIds |-> i]
  /\ entries = [i \in CommitIds |-> TodoEntryPick(i)]
  /\ cursor = 0
  /\ mode = "CommitList"
  /\ result = "none"
  /\ selected = [i \in CommitIds |-> FALSE]
  /\ reword_buffer = ""
  /\ hunks = EmptyVec
  /\ hunk_cursor = 0
  /\ hunk_groups = EmptyVec
  /\ split_messages = EmptyVec
  /\ split_msg_cursor = 0
  /\ split_editing_msg = FALSE
  /\ next_group = 1
  /\ squash_source = 0
  /\ hunks_cache = EmptyVec

\* no patch is being synthesized
PatchIdle ==
  /\ p_hunks = EmptyVec
  /\ p_selected = EmptyVec
  /\ p_patch = <<>>
  /\ p_done = FALSE

\* split_script = None
NoScript == [some |-> FALSE, cmds |-> <<>>]
\* run_split_automation has not been called
NotRun == [ran |-> FALSE, stop |-> "none", sha |-> -1]
\* variant: the commit itself is taken, not its first parent
ParentSelf(c) == c
\* commits[c].parents[0] on the linear history the commits were loaded from:
\* the next older commit
Parent(c) == c + 1
\* base_sha: None (rebase --root) when commits[oldest_idx] has no parent
BaseSha(oldest_idx, has_root) ==
  IF has_root THEN [root |-> TRUE, sha |-> -1]
  ELSE [root |-> FALSE, sha |-> Parent(oldest_idx)]
\* the engine is not rebasing
EngineIdle == [todo |-> <<>>, stop |-> "none", at |-> 0, base |-> [root |-> FALSE, sha |-> -1]]
NoOutput == [success |-> TRUE, stdout_marker |-> FALSE, stderr_marker |-> FALSE]

\* write_sequence_editor has not been called
NoSeqScript == [cmds |-> EmptyVec, desired |-> EmptyVec]
SeqIdle ==
  /\ s_pc = "idle"
  /\ s_script = NoSeqScript
  /\ s_todo = <<>>
  /\ s_out = <<>>
  /\ s_out2 = <<>>

\* a clean repository on a branch
CleanRepo == [detached |-> FALSE, flags |-> {}]
\* a branch without upstream and without refs/remotes/origin/<branch>
NoUpstream == [head_ok |-> TRUE, tracking |-> "none", tracking_tip |-> NumCommits,
               origin_ref |-> "missing", origin_tip |-> NumCommits, walk_ok |-> TRUE]
\* the command stands at statement pc; the user will type n keys
CraftAt(pc, n) ==
  /\ c_cmd = "craft"
  /\ c_pc = pc
  /\ c_repo = CleanRepo
  /\ c_keys = n
  /\ c_loaded = (pc # "idle")
  /\ c_upstream = NoUpstream
  /\ c_warned = FALSE
  /\ c_ret = "none"

\* get_commit_hunks has not been called
DecIdle ==
  /\ d_pc = "idle"
  /\ d_diff = EmptyVec
  /\ d_result = [ok |-> FALSE, hunks |-> EmptyVec]

\* execute_craft_plan has not been called
ExecIdle ==
  /\ x_pc = "idle"
  /\ x_tmp = FALSE
  /\ x_msgs = EmptyVec
  /\ x_counter = 0
  /\ x_script = NoScript
  /\ x_engine = EngineIdle
  /\ x_output = NoOutput
  /\ x_log = <<>>
  /\ x_ran = NotRun
  /\ x_resets = <<>>
  /\ x_outcome = "none"

Init ==
  /\ AppNew
  /\ status = ""
  /\ keys = 0
  /\ CraftAt("tui", MaxKeys)
  /\ DecIdle
  /\ PatchIdle
  /\ ExecIdle
  /\ SeqIdle

\* run_craft_tui's loop: a key event is handled while should_quit is false
Key(m) ==
  /\ result = "none"
  /\ mode = m
  /\ c_pc = "tui"
  /\ keys < c_keys
  /\ keys' = keys + 1
  /\ UNCHANGED <<patchVars, execVars, seqVars, craftVars, decVars>>

\* App::has_actions
has_actions == \E i \in Idx(entries) : entries[i].action.kind # "Pick"

(* ---------------------------- CommitList -------------------------------- *)
CommitListDown ==
  /\ Key("CommitList")
  /\ UNCHANGED status
  /\ cursor' = Min(cursor + 1, SatSub1(VLen(commits)))
  /\ UNCHANGED <<commits, entries, selected, mode, result, reword_buffer,
                 hunks, hunk_cursor, hunk_groups, split_messages, split_msg_cursor,
                 split_editing_msg, next_group, squash_source, hunks_cache>>

CommitListUp ==
  /\ Key("CommitList")
  /\ UNCHANGED status
  /\ cursor' = SatSub1(cursor)
  /\ UNCHANGED <<commits, entries, selected, mode, result, reword_buffer,
                 hunks, hunk_cursor, hunk_groups, split_messages, split_msg_cursor,
                 split_editing_msg, next_group, squash_source, hunks_cache>>

CommitListToggle ==
  /\ Key("CommitList")
  /\ UNCHANGED status
  /\ selected' = [selected EXCEPT ![cursor] = ~selected[cursor]]
  /\ UNCHANGED <<commits, entries, cursor, mode, result, reword_buffer,
                 hunks, hunk_cursor, hunk_groups, split_messages, split_msg_cursor,
                 split_editing_msg, next_group, squash_source, hunks_cache>>

CommitListEnter ==
  /\ Key("CommitList")
  /\ status' = "r=reword s=split q=squash f=fixup d=drop m=reorder"
  /\ mode' = "ActionMenu"
  /\ UNCHANGED <<commits, entries, selected, cursor, result, reword_buffer,
                 hunks, hunk_cursor, hunk_groups, split_messages, split_msg_cursor,
                 split_editing_msg, next_group, squash_source, hunks_cache>>

\* variant: 'p' opens the preview without asking has_actions
CommitListPreviewAlways ==
  /\ Key("CommitList")
  /\ UNCHANGED status
  /\ mode' = "Preview"
  /\ UNCHANGED <<commits, entries, selected, cursor, result, reword_buffer,
                 hunks, hunk_cursor, hunk_groups, split_messages, split_msg_cursor,
                 split_editing_msg, next_group, squash_source, hunks_cache>>

CommitListPreview ==
  /\ Key("CommitList")
  /\ status' = IF has_actions THEN status ELSE "no actions assigned yet"
  /\ mode' = IF has_actions THEN "Preview" ELSE mode
  /\ UNCHANGED <<commits, entries, selected, cursor, result, reword_buffer,
                 hunks, hunk_cursor, hunk_groups, split_messages, split_msg_cursor,
                 split_editing_msg, next_group, squash_source, hunks_cache>>

\* 'D': load_diff_for_cursor only touches diff_text, diff_scroll and status
CommitListDiff ==
  /\ Key("CommitList")
  /\ \E s \in {status, "diff error: {}"} : status' = s
  /\ UNCHANGED appVars

CommitListQuit ==
  /\ Key("CommitList")
  /\ UNCHANGED status
  /\ result' = "Cancel"
  /\ UNCHANGED <<commits, entries, selected, cursor, mode, reword_buffer,
                 hunks, hunk_cursor, hunk_groups, split_messages, split_msg_cursor,
                 split_editing_msg, next_group, squash_source, hunks_cache>>

handle_commit_list ==
  \/ CommitListDown
  \/ CommitListUp
  \/ CommitListToggle
  \/ CommitListEnter
  \/ CommitListPreview
  \/ CommitListDiff
  \/ CommitListQuit

(* ---------------------------- ActionMenu -------------------------------- *)
\* 'r'
ActionMenuReword ==
  /\ Key("ActionMenu")
  /\ status' = "editing message - Esc=done"
  /\ reword_buffer' = CommitMessage(commits[cursor])
  /\ mode' = "RewordEdit"
  /\ UNCHANGED <<commits, entries, selected, cursor, result,
                 hunks, hunk_cursor, hunk_groups, split_messages, split_msg_cursor,
                 split_editing_msg, next_group, squash_source, hunks_cache>>

\* variant: the hunk list is cached before it is tested for emptiness
ActionMenuSplitCaching ==
  /\ Key("ActionMenu")
  /\ status' = IF VLen(RepoHunks(commits[cursor])) = 0 THEN "no hunks to split"
                ELSE "space=toggle group 1-9=assign g=new group Enter=done"
  /\ LET hs == RepoHunks(commits[cursor]) IN
       /\ hunks_cache' = [k \in Idx(hunks_cache) \cup {cursor} |->
                            IF k = cursor THEN hs ELSE hunks_cache[k]]
       /\ IF VLen(hs) = 0
          THEN /\ mode' = "CommitList"
               /\ UNCHANGED <<hunks, hunk_cursor, hunk_groups, split_messages,
                              split_msg_cursor, next_group, split_editing_msg>>
          ELSE /\ hunks' = hs
               /\ hunk_cursor' = 0
               /\ hunk_groups' = [j \in Idx(hs) |-> 0]
               /\ split_messages' = [j \in 0..(SplitMsgSlots - 1) |-> ""]
               /\ split_msg_cursor' = 0
               /\ next_group' = 1
               /\ split_editing_msg' = FALSE
               /\ mode' = "SplitView"
  /\ UNCHANGED <<commits, entries, selected, cursor, result, reword_buffer, squash_source>>

\* 's', get_commit_hunks returned Ok(hunks)
ActionMenuSplit ==
  /\ Key("ActionMenu")
  /\ status' = IF VLen(RepoHunks(commits[cursor])) = 0 THEN "no hunks to split"
                ELSE "space=toggle group 1-9=assign g=new group Enter=done"
  /\ LET hs == RepoHunks(commits[cursor]) IN
       IF VLen(hs) = 0
       THEN /\ mode' = "CommitList"
            /\ UNCHANGED <<hunks_cache, hunks, hunk_cursor, hunk_groups, split_messages,
                           split_msg_cursor, next_group, split_editing_msg>>
       ELSE /\ hunks_cache' = [k \in Idx(hunks_cache) \cup {cursor} |->
                                 IF k = cursor THEN hs ELSE hunks_cache[k]]
            /\ hunks' = hs
            /\ hunk_cursor' = 0
            /\ hunk_groups' = [j \in Idx(hs) |-> 0]
            /\ split_messages' = [j \in 0..(SplitMsgSlots - 1) |-> ""]
            /\ split_msg_cursor' = 0
            /\ next_group' = 1
            /\ split_editing_msg' = FALSE
            /\ mode' = "SplitView"
  /\ UNCHANGED <<commits, entries, selected, cursor, result, reword_buffer, squash_source>>

\* 's', get_commit_hunks returned Err
ActionMenuSplitErr ==
  /\ Key("ActionMenu")
  /\ status' = "hunk parse error: {}"
  /\ mode' = "CommitList"
  /\ UNCHANGED <<commits, entries, selected, cursor, result, reword_buffer,
                 hunks, hunk_cursor, hunk_groups, split_messages, split_msg_cursor,
                 split_editing_msg, next_group, squash_source, hunks_cache>>

\* 'q'
ActionMenuSquash ==
  /\ Key("ActionMenu")
  /\ status' = "select target commit to squash into (j/k, Enter)"
  /\ squash_source' = cursor
  /\ mode' = "SquashTarget"
  /\ UNCHANGED <<commits, entries, selected, cursor, result, reword_buffer,
                 hunks, hunk_cursor, hunk_groups, split_messages, split_msg_cursor,
                 split_editing_msg, next_group, hunks_cache>>

\* 'f'
ActionMenuFixup ==
  /\ Key("ActionMenu")
  /\ status' = IF cursor > 0 THEN "fixup {} into {}" ELSE "cannot fixup first commit"
  /\ squash_source' = cursor
  /\ entries' = IF cursor > 0
                THEN [entries EXCEPT ![cursor] = TodoEntry(cursor, Fixup(cursor - 1))]
                ELSE entries
  /\ mode' = "CommitList"
  /\ UNCHANGED <<commits, selected, cursor, result, reword_buffer,
                 hunks, hunk_cursor, hunk_groups, split_messages, split_msg_cursor,
                 split_editing_msg, next_group, hunks_cache>>

\* variant: the action is written to every entry of the plan
WriteEverywhere(a) == [i \in Idx(entries) |-> TodoEntry(i, a)]
\* 'd', 'e', 'x': the entry under the cursor is overwritten
WriteAtCursor(a) == [entries EXCEPT ![cursor] = TodoEntry(cursor, a)]

ActionMenuDrop ==
  /\ Key("ActionMenu")
  /\ status' = "drop {}"
  /\ entries' = WriteAtCursor(Drop)
  /\ mode' = "CommitList"
  /\ UNCHANGED <<commits, selected, cursor, result, reword_buffer,
                 hunks, hunk_cursor, hunk_groups, split_messages, split_msg_cursor,
                 split_editing_msg, next_group, squash_source, hunks_cache>>

ActionMenuEdit ==
  /\ Key("ActionMenu")
  /\ status' = "edit stop at {}"
  /\ entries' = WriteAtCursor(Edit)
  /\ mode' = "CommitList"
  /\ UNCHANGED <<commits, selected, cursor, result, reword_buffer,
                 hunks, hunk_cursor, hunk_groups, split_messages, split_msg_cursor,
                 split_editing_msg, next_group, squash_source, hunks_cache>>

ActionMenuPick ==
  /\ Key("ActionMenu")
  /\ status' = "reset {} to pick"
  /\ entries' = [entries EXCEPT ![cursor] = TodoEntryPick(cursor)]
  /\ mode' = "CommitList"
  /\ UNCHANGED <<commits, selected, cursor, result, reword_buffer,
                 hunks, hunk_cursor, hunk_groups, split_messages, split_msg_cursor,
                 split_editing_msg, next_group, squash_source, hunks_cache>>

\* 'm'
ActionMenuReorder ==
  /\ Key("ActionMenu")
  /\ status' = "J/K=move commit Esc=done"
  /\ mode' = "ReorderMode"
  /\ UNCHANGED <<commits, entries, selected, cursor, result, reword_buffer,
                 hunks, hunk_cursor, hunk_groups, split_messages, split_msg_cursor,
                 split_editing_msg, next_group, squash_source, hunks_cache>>

ActionMenuEsc ==
  /\ Key("ActionMenu")
  /\ status' = ""
  /\ mode' = "CommitList"
  /\ UNCHANGED <<commits, entries, selected, cursor, result, reword_buffer,
                 hunks, hunk_cursor, hunk_groups, split_messages, split_msg_cursor,
                 split_editing_msg, next_group, squash_source, hunks_cache>>

handle_action_menu ==
  \/ ActionMenuReword
  \/ ActionMenuSplit
  \/ ActionMenuSplitErr
  \/ ActionMenuSquash
  \/ ActionMenuFixup
  \/ ActionMenuDrop
  \/ ActionMenuEdit
  \/ ActionMenuPick
  \/ ActionMenuReorder
  \/ ActionMenuEsc

(* ---------------------------- RewordEdit -------------------------------- *)
\* variant: the reword is saved whenever the buffer is not empty
RewordEditEscAlways ==
  /\ Key("RewordEdit")
  /\ status' = IF reword_buffer # "" THEN "reword {}" ELSE status
  /\ entries' = IF reword_buffer # ""
                THEN WriteAtCursor(Reword(reword_buffer))
                ELSE entries
  /\ mode' = "CommitList"
  /\ UNCHANGED <<commits, selected, cursor, result, reword_buffer,
                 hunks, hunk_cursor, hunk_groups, split_messages, split_msg_cursor,
                 split_editing_msg, next_group, squash_source, hunks_cache>>

\* Esc: save the reword action
RewordEditEsc ==
  /\ Key("RewordEdit")
  /\ status' = IF reword_buffer # "" /\ reword_buffer # CommitMessage(commits[cursor])
                THEN "reword {}" ELSE status
  /\ entries' = IF reword_buffer # "" /\ reword_buffer # CommitMessage(commits[cursor])
                THEN WriteAtCursor(Reword(reword_buffer))
                ELSE entries
  /\ mode' = "CommitList"
  /\ UNCHANGED <<commits, selected, cursor, result, reword_buffer,
                 hunks, hunk_cursor, hunk_groups, split_messages, split_msg_cursor,
                 split_editing_msg, next_group, squash_source, hunks_cache>>

\* Enter, Backspace, Delete, Char(c): the buffer becomes another text
\* (cursor keys Left/Right/Home/End only move reword_cursor)
RewordEditType ==
  /\ Key("RewordEdit")
  /\ UNCHANGED status
  /\ \E t \in TypedTexts \cup {"", CommitMessage(commits[cursor])} :
       /\ t # reword_buffer
       /\ reword_buffer' = t
  /\ UNCHANGED <<commits, entries, selected, cursor, mode, result,
                 hunks, hunk_cursor, hunk_groups, split_messages, split_msg_cursor,
                 split_editing_msg, next_group, squash_source, hunks_cache>>

handle_reword_edit ==
  \/ RewordEditEsc
  \/ RewordEditType
(* ----------------------------- SplitView -------------------------------- *)
SplitKey(editing) ==
  /\ Key("SplitView")
  /\ split_editing_msg = editing

\* editing a group message: Esc | Enter
SplitMsgDone ==
  /\ SplitKey(TRUE)
  /\ status' = "space=toggle 1-9=assign g=new group Enter=done"
  /\ split_editing_msg' = FALSE
  /\ UNCHANGED <<commits, entries, selected, cursor, mode, result, reword_buffer,
                 hunks, hunk_cursor, hunk_groups, split_messages, split_msg_cursor,
                 next_group, squash_source, hunks_cache>>

\* editing a group message: Backspace pops the last character
SplitMsgBackspace ==
  /\ SplitKey(TRUE)
  /\ UNCHANGED status
  /\ split_messages' = [split_messages EXCEPT ![split_msg_cursor] = ""]
  /\ UNCHANGED <<commits, entries, selected, cursor, mode, result, reword_buffer,
                 hunks, hunk_cursor, hunk_groups, split_msg_cursor,
                 split_editing_msg, next_group, squash_source, hunks_cache>>

\* editing a group message: Char(c) pushes a character
SplitMsgChar ==
  /\ SplitKey(TRUE)
  /\ UNCHANGED status
  /\ split_messages[split_msg_cursor] = ""
  /\ \E t \in TypedTexts :
       split_messages' = [split_messages EXCEPT ![split_msg_cursor] = t]
  /\ UNCHANGED <<commits, entries, selected, cursor, mode, result, reword_buffer,
                 hunks, hunk_cursor, hunk_groups, split_msg_cursor,
                 split_editing_msg, next_group, squash_source, hunks_cache>>

SplitDown ==
  /\ SplitKey(FALSE)
  /\ UNCHANGED status
  /\ hunk_cursor' = Min(hunk_cursor + 1, SatSub1(VLen(hunks)))
  /\ UNCHANGED <<commits, entries, selected, cursor, mode, result, reword_buffer,
                 hunks, hunk_groups, split_messages, split_msg_cursor,
                 split_editing_msg, next_group, squash_source, hunks_cache>>

SplitUp ==
  /\ SplitKey(FALSE)
  /\ UNCHANGED status
  /\ hunk_cursor' = SatSub1(hunk_cursor)
  /\ UNCHANGED <<commits, entries, selected, cursor, mode, result, reword_buffer,
                 hunks, hunk_groups, split_messages, split_msg_cursor,
                 split_editing_msg, next_group, squash_source, hunks_cache>>

\* ' ': toggle the current hunk into next_group
SplitToggle ==
  /\ SplitKey(FALSE)
  /\ UNCHANGED status
  /\ hunk_groups' = [hunk_groups EXCEPT ![hunk_cursor] =
                       IF hunk_groups[hunk_cursor] = 0 THEN next_group ELSE 0]
  /\ UNCHANGED <<commits, entries, selected, cursor, mode, result, reword_buffer,
                 hunks, hunk_cursor, split_messages, split_msg_cursor,
                 split_editing_msg, next_group, squash_source, hunks_cache>>

\* '1'..'9'
SplitDigit ==
  /\ SplitKey(FALSE)
  /\ UNCHANGED status
  /\ \E group \in (1..MaxDigit) \cup {TopDigit} :
       /\ hunk_groups' = [hunk_groups EXCEPT ![hunk_cursor] = group]
       /\ next_group' = IF group >= next_group THEN group + 1 ELSE next_group
  /\ UNCHANGED <<commits, entries, selected, cursor, mode, result, reword_buffer,
                 hunks, hunk_cursor, split_messages, split_msg_cursor,
                 split_editing_msg, squash_source, hunks_cache>>

\* 'g': new group
SplitNewGroup ==
  /\ SplitKey(FALSE)
  /\ UNCHANGED status
  /\ next_group < MaxNextGroup
  /\ hunk_groups' = [hunk_groups EXCEPT ![hunk_cursor] = next_group]
  /\ next_group' = next_group + 1
  /\ UNCHANGED <<commits, entries, selected, cursor, mode, result, reword_buffer,
                 hunks, hunk_cursor, split_messages, split_msg_cursor,
                 split_editing_msg, squash_source, hunks_cache>>

\* 'n': name/edit the message of the current hunk's group.  The next
\* terminal.draw runs render_split_view, which reads
\* split_messages[split_msg_cursor]: an index past the vector panics.
SplitName ==
  /\ SplitKey(FALSE)
  /\ status' = IF hunk_groups[hunk_cursor] > 0 THEN "editing message for group {} (Esc=done)"
                ELSE status
  /\ LET group == hunk_groups[hunk_cursor] IN
       IF group > 0
       THEN /\ split_msg_cursor' = group
            /\ split_editing_msg' = TRUE
            /\ result' = IF group \in Idx(split_messages) THEN result ELSE "Panic"
       ELSE UNCHANGED <<split_msg_cursor, split_editing_msg, result>>
  /\ UNCHANGED <<commits, entries, selected, cursor, mode, reword_buffer,
                 hunks, hunk_cursor, hunk_groups, split_messages,
                 next_group, squash_source, hunks_cache>>

\* max_group
MaxOf(f) == IF VLen(f) = 0 THEN 0
            ELSE CHOOSE m \in {f[i] : i \in Idx(f)} : \A i \in Idx(f) : f[i] <= m

\* variant: a group also takes the hunks of every higher group number
GroupIndicesFrom(hg, g) ==
  LET S == {i \in Idx(hg) : hg[i] >= g}
      RECURSIVE Asc(_, _)
      Asc(T, acc) == IF T = {} THEN acc
                     ELSE LET m == CHOOSE x \in T : \A y \in T : x <= y
                          IN Asc(T \ {m}, Push(acc, m))
  IN Asc(S, EmptyVec)

\* indices of the hunks assigned to group g, ascending
GroupIndices(hg, g) ==
  LET S == {i \in Idx(hg) : hg[i] = g}
      RECURSIVE Asc(_, _)
      Asc(T, acc) == IF T = {} THEN acc
                     ELSE LET m == CHOOSE x \in T : \A y \in T : x <= y
                          IN Asc(T \ {m}, Push(acc, m))
  IN Asc(S, EmptyVec)

GroupMessage(msgs, g) ==
  IF g < VLen(msgs) /\ msgs[g] # "" THEN msgs[g] ELSE SplitPart(g)

\* the groups vector built by finalize_split: g in 1..=max_group, empty ones skipped
BuildGroups(hg, msgs) ==
  LET RECURSIVE Build(_, _)
      Build(g, acc) ==
        IF g > MaxOf(hg) THEN acc
        ELSE LET indices == GroupIndices(hg, g) IN
             IF VLen(indices) = 0 THEN Build(g + 1, acc)
             ELSE Build(g + 1,
                        Push(acc, [hunk_indices |-> indices,
                                   message |-> GroupMessage(msgs, g)]))
  IN Build(1, EmptyVec)

\* App::finalize_split
\* variant: the split is written without looking at max_group
finalize_splitUnchecked ==
  /\ entries' = WriteAtCursor(Split(BuildGroups(hunk_groups, split_messages)))
  /\ status' = "split {} into {} parts"

finalize_split ==
  IF MaxOf(hunk_groups) = 0
  THEN /\ status' = "no hunks assigned to groups"
       /\ UNCHANGED entries
  ELSE /\ entries' = WriteAtCursor(Split(BuildGroups(hunk_groups, split_messages)))
       /\ status' = "split {} into {} parts"

\* Enter: finalize split
SplitEnter ==
  /\ SplitKey(FALSE)
  /\ finalize_split
  /\ mode' = "CommitList"
  /\ UNCHANGED <<commits, selected, cursor, result, reword_buffer,
                 hunks, hunk_cursor, hunk_groups, split_messages, split_msg_cursor,
                 split_editing_msg, next_group, squash_source, hunks_cache>>

SplitEsc ==
  /\ SplitKey(FALSE)
  /\ status' = ""
  /\ mode' = "CommitList"
  /\ UNCHANGED <<commits, entries, selected, cursor, result, reword_buffer,
                 hunks, hunk_cursor, hunk_groups, split_messages, split_msg_cursor,
                 split_editing_msg, next_group, squash_source, hunks_cache>>

handle_split_view ==
  \/ SplitMsgDone
  \/ SplitMsgBackspace
  \/ SplitMsgChar
  \/ SplitDown
  \/ SplitUp
  \/ SplitToggle
  \/ SplitDigit
  \/ SplitNewGroup
  \/ SplitName
  \/ SplitEnter
  \/ SplitEsc

(* ---------------------------- SquashTarget ------------------------------ *)
SquashDown ==
  /\ Key("SquashTarget")
  /\ UNCHANGED status
  /\ cursor' = Min(cursor + 1, SatSub1(VLen(commits)))
  /\ UNCHANGED <<commits, entries, selected, mode, result, reword_buffer,
                 hunks, hunk_cursor, hunk_groups, split_messages, split_msg_cursor,
                 split_editing_msg, next_group, squash_source, hunks_cache>>

SquashUp ==
  /\ Key("SquashTarget")
  /\ UNCHANGED status
  /\ cursor' = SatSub1(cursor)
  /\ UNCHANGED <<commits, entries, selected, mode, result, reword_buffer,
                 hunks, hunk_cursor, hunk_groups, split_messages, split_msg_cursor,
                 split_editing_msg, next_group, squash_source, hunks_cache>>

\* variant: Enter writes the squash without comparing cursor and squash_source
SquashEnterAny ==
  /\ Key("SquashTarget")
  /\ status' = "squash {} into {}"
  /\ entries' = [entries EXCEPT ![squash_source] =
                   TodoEntry(squash_source, Squash(cursor, None))]
  /\ mode' = "CommitList"
  /\ UNCHANGED <<commits, selected, cursor, result, reword_buffer,
                 hunks, hunk_cursor, hunk_groups, split_messages, split_msg_cursor,
                 split_editing_msg, next_group, squash_source, hunks_cache>>

\* variant: the message of a Reword already on the source is carried into the
\* squash
SquashEnterMerging ==
  /\ Key("SquashTarget")
  /\ status' = IF cursor # squash_source THEN "squash {} into {}" ELSE status
  /\ entries' = IF cursor # squash_source
                THEN [entries EXCEPT ![squash_source] =
                        TodoEntry(squash_source,
                                  Squash(cursor,
                                         IF entries[squash_source].action.kind = "Reword"
                                         THEN entries[squash_source].action.msg
                                         ELSE None))]
                ELSE entries
  /\ mode' = "CommitList"
  /\ UNCHANGED <<commits, selected, cursor, result, reword_buffer,
                 hunks, hunk_cursor, hunk_groups, split_messages, split_msg_cursor,
                 split_editing_msg, next_group, squash_source, hunks_cache>>

SquashEnter ==
  /\ Key("SquashTarget")
  /\ status' = IF cursor # squash_source THEN "squash {} into {}" ELSE status
  /\ entries' = IF cursor # squash_source
                THEN [entries EXCEPT ![squash_source] =
                        TodoEntry(squash_source, Squash(cursor, None))]
                ELSE entries
  /\ mode' = "CommitList"
  /\ UNCHANGED <<commits, selected, cursor, result, reword_buffer,
                 hunks, hunk_cursor, hunk_groups, split_messages, split_msg_cursor,
                 split_editing_msg, next_group, squash_source, hunks_cache>>

SquashEsc ==
  /\ Key("SquashTarget")
  /\ status' = ""
  /\ cursor' = squash_source
  /\ mode' = "CommitList"
  /\ UNCHANGED <<commits, entries, selected, result, reword_buffer,
                 hunks, hunk_cursor, hunk_groups, split_messages, split_msg_cursor,
                 split_editing_msg, next_group, squash_source, hunks_cache>>

handle_squash_target ==
  \/ SquashDown
  \/ SquashUp
  \/ SquashEnter
  \/ SquashEsc

(* ----------------------------- ReorderMode ------------------------------ *)
\* 'J': move down
ReorderMoveDown ==
  /\ Key("ReorderMode")
  /\ UNCHANGED status
  /\ IF cursor < VLen(entries) - 1
     THEN /\ entries' = Swap(entries, cursor, cursor + 1)
          /\ commits' = Swap(commits, cursor, cursor + 1)
          /\ selected' = Swap(selected, cursor, cursor + 1)
          /\ cursor' = cursor + 1
     ELSE UNCHANGED <<entries, commits, selected, cursor>>
  /\ UNCHANGED <<mode, result, reword_buffer,
                 hunks, hunk_cursor, hunk_groups, split_messages, split_msg_cursor,
                 split_editing_msg, next_group, squash_source, hunks_cache>>

\* 'K': move up
ReorderMoveUp ==
  /\ Key("ReorderMode")
  /\ UNCHANGED status
  /\ IF cursor > 0
     THEN /\ entries' = Swap(entries, cursor, cursor - 1)
          /\ commits' = Swap(commits, cursor, cursor - 1)
          /\ selected' = Swap(selected, cursor, cursor - 1)
          /\ cursor' = cursor - 1
     ELSE UNCHANGED <<entries, commits, selected, cursor>>
  /\ UNCHANGED <<mode, result, reword_buffer,
                 hunks, hunk_cursor, hunk_groups, split_messages, split_msg_cursor,
                 split_editing_msg, next_group, squash_source, hunks_cache>>

ReorderDown ==
  /\ Key("ReorderMode")
  /\ UNCHANGED status
  /\ cursor' = Min(cursor + 1, SatSub1(VLen(commits)))
  /\ UNCHANGED <<commits, entries, selected, mode, result, reword_buffer,
                 hunks, hunk_cursor, hunk_groups, split_messages, split_msg_cursor,
                 split_editing_msg, next_group, squash_source, hunks_cache>>

ReorderUp ==
  /\ Key("ReorderMode")
  /\ UNCHANGED status
  /\ cursor' = SatSub1(cursor)
  /\ UNCHANGED <<commits, entries, selected, mode, result, reword_buffer,
                 hunks, hunk_cursor, hunk_groups, split_messages, split_msg_cursor,
                 split_editing_msg, next_group, squash_source, hunks_cache>>

\* Esc | Enter
ReorderDone ==
  /\ Key("ReorderMode")
  /\ status' = "reorder applied"
  /\ mode' = "CommitList"
  /\ UNCHANGED <<commits, entries, selected, cursor, result, reword_buffer,
                 hunks, hunk_cursor, hunk_groups, split_messages, split_msg_cursor,
                 split_editing_msg, next_group, squash_source, hunks_cache>>

handle_reorder ==
  \/ ReorderMoveDown
  \/ ReorderMoveUp
  \/ ReorderDown
  \/ ReorderUp
  \/ ReorderDone

(* ------------------------------- Preview -------------------------------- *)
\* 'y' | Enter
PreviewConfirm ==
  /\ Key("Preview")
  /\ UNCHANGED status
  /\ result' = "Execute"
  /\ UNCHANGED <<commits, entries, selected, cursor, mode, reword_buffer,
                 hunks, hunk_cursor, hunk_groups, split_messages, split_msg_cursor,
                 split_editing_msg, next_group, squash_source, hunks_cache>>

\* 'j' / 'k' only scroll
PreviewScroll ==
  /\ Key("Preview")
  /\ UNCHANGED status
  /\ UNCHANGED appVars

\* variant: leaving the preview opens the action menu
PreviewEscToMenu ==
  /\ Key("Preview")
  /\ UNCHANGED status
  /\ mode' = "ActionMenu"
  /\ UNCHANGED <<commits, entries, selected, cursor, result, reword_buffer,
                 hunks, hunk_cursor, hunk_groups, split_messages, split_msg_cursor,
                 split_editing_msg, next_group, squash_source, hunks_cache>>

\* Esc | 'q'
PreviewEsc ==
  /\ Key("Preview")
  /\ UNCHANGED status
  /\ mode' = "CommitList"
  /\ UNCHANGED <<commits, entries, selected, cursor, result, reword_buffer,
                 hunks, hunk_cursor, hunk_groups, split_messages, split_msg_cursor,
                 split_editing_msg, next_group, squash_source, hunks_cache>>

handle_preview ==
  \/ PreviewConfirm
  \/ PreviewScroll
  \/ PreviewEsc

\* App::handle_key
handle_key ==
  \/ handle_commit_list
  \/ handle_action_menu
  \/ handle_reword_edit
  \/ handle_split_view
  \/ handle_squash_target
  \/ handle_reorder
  \/ handle_preview

(***************************************************************************)
(* Patch Synthesizer (craft/split.rs)                                      *)
(***************************************************************************)
\* A patch is the sequence of the pieces pushed onto the String; `newline`
\* tells whether the piece ends with '\n'.
NoHeader == [commit |-> -1, n |-> -1]
Piece(tag, f, h, t, nl) == [tag |-> tag, file |-> f, header |-> h, text |-> t, newline |-> nl]
MinusHeader(f) == Piece("--- a/", f, NoHeader, "", TRUE)
PlusHeader(f) == Piece("+++ b/", f, NoHeader, "", TRUE)
HunkHeader(h) == Piece("@@", "", h, "", TRUE)
Origin(o) == Piece(o, "", NoHeader, "", FALSE)
Content(t, nl) == Piece("content", "", NoHeader, t, nl)
Newline == Piece("\n", "", NoHeader, "", TRUE)

\* patch.ends_with('\n')
EndsWithNewline(patch) == Len(patch) > 0 /\ patch[Len(patch)].newline

\* one line of a hunk: the origin character, the content, and a newline if
\* the patch does not already end with one
PushLine(patch, line) ==
  LET p1 == Append(patch, Origin(line.origin))
      p2 == IF line.text = "" THEN p1 ELSE Append(p1, Content(line.text, line.newline))
  IN IF EndsWithNewline(p2) THEN p2 ELSE Append(p2, Newline)

PushLines(patch, ls) ==
  LET RECURSIVE Go(_, _)
      Go(k, acc) == IF k >= VLen(ls) THEN acc ELSE Go(k + 1, PushLine(acc, ls[k]))
  IN Go(0, patch)

\* variant: the file header is pushed before every hunk
FileHeaderAlways(current_file, file_path) == TRUE

\* the two file-header lines are pushed when the hunk's file differs from current_file
FileHeaderNeeded(current_file, file_path) == current_file # file_path

generate_patch_for_hunks(hs, sel) ==
  LET RECURSIVE Go(_, _, _)
      Go(k, patch, current_file) ==
        IF k >= VLen(sel) THEN patch
        ELSE LET hunk == hs[sel[k]]
                 p1 == IF FileHeaderNeeded(current_file, hunk.file_path)
                       THEN patch \o <<MinusHeader(hunk.file_path), PlusHeader(hunk.file_path)>>
                       ELSE patch
                 p2 == Append(p1, HunkHeader(hunk.header))
             IN Go(k + 1, PushLines(p2, hunk.lines), hunk.file_path)
  IN Go(0, <<>>, "None")

\* hunks[idx] with idx out of range panics
PatchPanics(hs, sel) == \E k \in Idx(sel) : sel[k] \notin Idx(hs)

(***************************************************************************)
(* Rebase Script Generator (craft/execute.rs)                              *)
(***************************************************************************)
\* ordered.sort_by(|a, b| b.original_idx.cmp(&a.original_idx)): a stable
\* sort of the entries, highest original_idx first
Ordered(es) ==
  LET Before(i, j) == \/ es[i].original_idx > es[j].original_idx
                      \/ es[i].original_idx = es[j].original_idx /\ i < j
      RECURSIVE Go(_, _)
      Go(S, acc) == IF S = {} THEN acc
                    ELSE LET i == CHOOSE x \in S : \A y \in S \ {x} : Before(x, y)
                         IN Go(S \ {i}, Push(acc, es[i]))
  IN Go(Idx(es), EmptyVec)

\* variant: the maximum is taken over the non-Pick entries only
OldestTouchedIdx(es) ==
  MaxOf([i \in {j \in Idx(es) : es[j].action.kind # "Pick"} |-> es[i].original_idx])

\* oldest_idx = entries.iter().map(|e| e.original_idx).max()
OldestIdx(es) == MaxOf([i \in Idx(es) |-> es[i].original_idx])

\* variant: a Split entry leaves the line a pick
KeywordSplitPicked(action) ==
  CASE action.kind = "Reword" -> "reword"
    [] action.kind = "Squash" -> "squash"
    [] action.kind = "Fixup" -> "fixup"
    [] action.kind = "Drop" -> "drop"
    [] action.kind = "Edit" -> "edit"
    [] OTHER -> "pick"

\* the keyword a sed command substitutes for "pick"
Keyword(action) ==
  CASE action.kind = "Reword" -> "reword"
    [] action.kind = "Squash" -> "squash"
    [] action.kind = "Fixup" -> "fixup"
    [] action.kind = "Drop" -> "drop"
    [] action.kind = "Split" -> "edit"
    [] action.kind = "Edit" -> "edit"
    [] OTHER -> "pick"

\* sed_cmds: one "s/^pick {sha}/{keyword} {sha}/" per non-Pick entry; the
\* short id of commits[original_idx] is represented by original_idx
SedCmds(ord) ==
  LET RECURSIVE Go(_, _)
      Go(k, acc) ==
        IF k >= VLen(ord) THEN acc
        ELSE Go(k + 1, IF ord[k].action.kind = "Pick" THEN acc
                       ELSE Push(acc, [sha |-> ord[k].original_idx,
                                       keyword |-> Keyword(ord[k].action)]))
  IN Go(0, EmptyVec)

\* desired_order
DesiredOrder(ord) == [k \in Idx(ord) |-> ord[k].original_idx]

\* A todo line: its leading keyword, the short id that follows it (-1 when
\* the line is blank or a comment) and the set of all short ids its text contains.
TodoLine(kw, sha, shas) == [keyword |-> kw, sha |-> sha, shas |-> shas]
PickLine(c) == TodoLine("pick", c, {c})

\* sed: the commands are applied to the line in order
ApplySed(cmds, line) ==
  LET RECURSIVE Go(_, _)
      Go(k, l) ==
        IF k >= VLen(cmds) THEN l
        ELSE Go(k + 1, IF l.keyword = "pick" /\ l.sha = cmds[k].sha
                       THEN [l EXCEPT !.keyword = cmds[k].keyword]
                       ELSE l)
  IN Go(0, line)

\* awk: order[NR] is the index of the last short id of desired_order that
\* the line matches, NR + 1000 when it matches none
AwkOrder(desired, line, NR) ==
  LET M == {i \in Idx(desired) : desired[i] \in line.shas}
  IN IF M = {} THEN NR + UnmatchedBase
     ELSE CHOOSE i \in M : \A k \in M : k <= i

\* the decimal digits of a natural number, as awk prints an array index
Digits(n) ==
  LET RECURSIVE Go(_)
      Go(m) == IF m < 10 THEN <<m>> ELSE Append(Go(m \div 10), m % 10)
  IN Go(n)
\* string comparison of two array indices
IndexStringLess(a, b) ==
  LET s == Digits(a)
      t == Digits(b)
  IN \E k \in 1..Len(t) :
        /\ \A j \in 1..(k - 1) : j <= Len(s) /\ s[j] = t[j]
        /\ k = Len(s) + 1 \/ (k <= Len(s) /\ s[k] < t[k])

\* variant: the awk script without its fallback for lines that match no
\* short id; such lines are not printed
ReorderMatchedOnly(desired, lines) ==
  LET ord(n) == AwkOrder(desired, lines[n], n)
      Before(a, b) == ord(a) < ord(b) \/ (ord(a) = ord(b) /\ IndexStringLess(a, b))
      RECURSIVE Go(_, _)
      Go(S, acc) == IF S = {} THEN acc
                    ELSE LET n == CHOOSE x \in S : \A y \in S \ {x} : Before(x, y)
                         IN Go(S \ {n}, Append(acc, lines[n]))
  IN Go({n \in DOMAIN lines : \E i \in Idx(desired) : desired[i] \in lines[n].shas}, <<>>)

\* build_reorder_script: asorti(order, sorted, "@val_num_asc") sorts the line
\* numbers by ascending order[NR]; gawk compares the indices as strings when
\* two values are equal.  The lines are printed in that order.
Reorder(desired, lines) ==
  LET ord(n) == AwkOrder(desired, lines[n], n)
      Before(a, b) == ord(a) < ord(b) \/ (ord(a) = ord(b) /\ IndexStringLess(a, b))
      RECURSIVE Go(_, _)
      Go(S, acc) == IF S = {} THEN acc
                    ELSE LET n == CHOOSE x \in S : \A y \in S \ {x} : Before(x, y)
                         IN Go(S \ {n}, Append(acc, lines[n]))
  IN Go(DOMAIN lines, <<>>)

\* seq-editor.sh as write_sequence_editor composes it
WriteScript(ord) == [cmds |-> SedCmds(ord), desired |-> DesiredOrder(ord)]
\* seq-editor.sh run on a todo text: sed on every line, then the awk script
RunSeqScript(script, lines) ==
  Reorder(script.desired, [n \in DOMAIN lines |-> ApplySed(script.cmds, lines[n])])

\* the script written by write_sequence_editor, applied to a todo text
SequenceEditor(ord, lines) == RunSeqScript(WriteScript(ord), lines)

\* editor_messages: the messages of Reword and Squash{message: Some} entries
EditorMessages(ord) ==
  LET RECURSIVE Go(_, _)
      Go(k, acc) ==
        IF k >= VLen(ord) THEN acc
        ELSE LET a == ord[k].action IN
             Go(k + 1, IF a.kind = "Reword" THEN Push(acc, a.msg)
                       ELSE IF a.kind = "Squash" /\ a.message # None THEN Push(acc, a.message)
                       ELSE acc)
  IN Go(0, EmptyVec)

\* split_entries: (sha, groups) of the Split entries; the full id of
\* commits[original_idx] is represented by original_idx
SplitEntries(ord) ==
  LET RECURSIVE Go(_, _)
      Go(k, acc) ==
        IF k >= VLen(ord) THEN acc
        ELSE Go(k + 1, IF ord[k].action.kind = "Split"
                       THEN Push(acc, [sha |-> ord[k].original_idx,
                                       groups |-> ord[k].action.groups])
                       ELSE acc)
  IN Go(0, EmptyVec)

\* write_split_automation: the commands of auto-split.sh after "set -e"
Cmd(op, commit_idx, group_idx, message) ==
  [op |-> op, commit_idx |-> commit_idx, group_idx |-> group_idx, message |-> message]
Recipe(commit_idx, groups) ==
  LET RECURSIVE Go(_, _)
      Go(g, acc) ==
        IF g >= VLen(groups) THEN acc
        ELSE Go(g + 1, acc \o <<Cmd("apply", commit_idx, g, ""),
                                Cmd("commit", commit_idx, g, groups[g].message)>>)
  IN Go(0, <<Cmd("reset", commit_idx, -1, "")>>) \o <<Cmd("continue", commit_idx, -1, "")>>

SplitScript(cache, split_entries) ==
  LET RECURSIVE Go(_, _)
      Go(k, acc) ==
        IF k >= VLen(split_entries) THEN acc
        ELSE LET commit_idx == split_entries[k].sha IN
             Go(k + 1, IF commit_idx \in DOMAIN cache
                       THEN acc \o Recipe(commit_idx, split_entries[k].groups)
                       ELSE acc)
  IN Go(0, <<>>)

\* the patch files written: patch_{commit_idx}_{group_idx}.patch -> content;
\* a later fs::write to the same name replaces the content
PatchFiles(cache, split_entries) ==
  LET Writers(ci, g) == {k \in Idx(split_entries) :
                            /\ split_entries[k].sha = ci
                            /\ ci \in DOMAIN cache
                            /\ g \in Idx(split_entries[k].groups)}
      Names == {<<ci, g>> \in (0..NumCommits) \X (0..(MaxNextGroup + 1)) : Writers(ci, g) # {}}
  IN [nm \in Names |->
        LET k == CHOOSE x \in Writers(nm[1], nm[2]) : \A y \in Writers(nm[1], nm[2]) : y <= x
        IN generate_patch_for_hunks(cache[nm[1]], split_entries[k].groups[nm[2]].hunk_indices)]

\* generate_patch_for_hunks indexes past the cached hunk list
SplitPanics(cache, split_entries) ==
  \E k \in Idx(split_entries) :
     /\ split_entries[k].sha \in DOMAIN cache
     /\ \E g \in Idx(split_entries[k].groups) :
          PatchPanics(cache[split_entries[k].sha], split_entries[k].groups[g].hunk_indices)

(***************************************************************************)
(* The Patch Synthesizer as a pure function: the inputs are drawn in the   *)
(* initial state, the only step applies the function.                      *)
(***************************************************************************)
Files == {"x", "y"}
\* the ascending vector of the indices in S
Ascending(S) == GroupIndices([i \in S |-> 1], 1)

PatchInit ==
  /\ AppNew
  /\ status = ""
  /\ keys = 0
  /\ CraftAt("idle", MaxKeys)
  /\ DecIdle
  /\ \E n \in 1..MaxHunks :
       /\ \E fs \in [0..(n - 1) -> Files] :
            p_hunks = [j \in 0..(n - 1) |-> Hunk(fs[j], 0, j, HunkLines(j))]
       /\ \E S \in SUBSET (0..(n - 1)) : p_selected = Ascending(S)
  /\ p_patch = <<>>
  /\ p_done = FALSE
  /\ ExecIdle
  /\ SeqIdle

Synthesize ==
  /\ ~p_done
  /\ p_hunks # EmptyVec
  /\ p_patch' = generate_patch_for_hunks(p_hunks, p_selected)
  /\ p_done' = TRUE
  /\ UNCHANGED <<appVars, status, keys, p_hunks, p_selected, execVars, seqVars, craftVars, decVars>>

PatchNext == Synthesize

SpecPatch == PatchInit /\ [][PatchNext]_vars

\* the todo text the engine hands to the sequence editor for
\* `git rebase -i <parent of commits[oldest_idx]>` on a linear history:
\* one pick line per commit, oldest first, a blank line, and the comment
\* "# Rebase <base>..<head> onto <base>" that contains the head's short id
InitialTodo(oldest_idx) ==
  [n \in 1..(oldest_idx + 1) |-> PickLine(oldest_idx + 1 - n)]
    \o <<TodoLine("", -1, {}), TodoLine("#", -1, {0})>>

\* the short ids of the command lines of a todo text, in order
TodoCommits(lines) ==
  LET RECURSIVE Go(_, _)
      Go(n, acc) == IF n > Len(lines) THEN acc
                    ELSE Go(n + 1, IF lines[n].sha = -1 THEN acc ELSE Append(acc, lines[n].sha))
  IN Go(1, <<>>)

(***************************************************************************)
(* The external engine (`git rebase -i`, `git rebase --continue`), as the  *)
(* executor drives it.                                                     *)
(***************************************************************************)
IsCommand(line) == line.sha # -1
IsFixupLike(line) == line.keyword \in {"squash", "fixup"}
\* the next command line after line n, 0 when there is none
NextCommand(todo, n) ==
  LET S == {k \in DOMAIN todo : k > n /\ IsCommand(todo[k])}
  IN IF S = {} THEN 0 ELSE CHOOSE k \in S : \A j \in S : k <= j
\* a squash or fixup line needs an earlier line that leaves a commit
HasPrevious(todo, n) ==
  \E k \in DOMAIN todo : k < n /\ IsCommand(todo[k]) /\ todo[k].keyword # "drop"
\* line n ends a squash/fixup chain that contains a squash: the engine opens
\* the message editor for the melded commit
EndsSquashChain(todo, n) ==
  /\ IsFixupLike(todo[n])
  /\ NextCommand(todo, n) = 0 \/ ~IsFixupLike(todo[NextCommand(todo, n)])
  /\ \E k \in DOMAIN todo :
       /\ k <= n
       /\ todo[k].keyword = "squash"
       /\ \A j \in k..n : IsCommand(todo[j]) => IsFixupLike(todo[j])
OpensEditor(todo, n) == todo[n].keyword = "reword" \/ EndsSquashChain(todo, n)

\* msg-editor.sh: copy msg_$IDX to the destination if that file exists, then
\* write IDX + 1 to the counter file
MsgFileExists(msgs, idx) == idx \in Idx(msgs)
\* variant: past the last message file the hook starts over with msg_0
MessageEditorWrapping(msgs, counter, sha) ==
  [sha |-> sha, hooked |-> TRUE, idx |-> counter,
   served |-> IF VLen(msgs) > 0 THEN msgs[counter % VLen(msgs)] ELSE "untouched"]
MessageEditor(msgs, counter, sha) ==
  [sha |-> sha, hooked |-> TRUE, idx |-> counter,
   served |-> IF MsgFileExists(msgs, counter) THEN msgs[counter] ELSE "untouched"]
\* the user's own editor, when GIT_EDITOR is not the generated script
OtherEditor(sha) == [sha |-> sha, hooked |-> FALSE, idx |-> -1, served |-> "untouched"]

\* The engine replays the todo from line `from`.  It stops at the line
\* `conflict_at` (applying that commit conflicts), at an edit line, at a
\* squash/fixup line without a previous commit, or when the todo is done;
\* `hooked` tells whether GIT_EDITOR is the generated message injector.
Replay(todo, from, conflict_at, hooked, msgs, counter, log) ==
  LET RECURSIVE Go(_, _, _)
      Go(n, ctr, lg) ==
        IF n > Len(todo) THEN [stop |-> "done", at |-> 0, counter |-> ctr, log |-> lg]
        ELSE IF ~IsCommand(todo[n]) \/ todo[n].keyword = "drop" THEN Go(n + 1, ctr, lg)
        ELSE IF IsFixupLike(todo[n]) /\ ~HasPrevious(todo, n)
             THEN [stop |-> "error", at |-> n, counter |-> ctr, log |-> lg]
        ELSE IF n = conflict_at
             THEN [stop |-> "conflict", at |-> n, counter |-> ctr, log |-> lg]
        ELSE LET ed == OpensEditor(todo, n)
                 lg2 == IF ~ed THEN lg
                        ELSE Append(lg, IF hooked THEN MessageEditor(msgs, ctr, todo[n].sha)
                                        ELSE OtherEditor(todo[n].sha))
                 ctr2 == IF ed /\ hooked THEN ctr + 1 ELSE ctr
             IN IF todo[n].keyword = "edit"
                THEN [stop |-> "edit", at |-> n, counter |-> ctr2, log |-> lg2]
                ELSE Go(n + 1, ctr2, lg2)
  IN Go(from, counter, log)

\* the rebase is in progress: `git status` says "interactive rebase in progress"
RebaseInProgress(engine) == engine.stop \in {"edit", "conflict", "error"}

(***************************************************************************)
(* Rebase Executor (craft/execute.rs, execute_craft_plan)                  *)
(***************************************************************************)
\* The plans handed to the executor: what the Plan Builder writes without
\* reorder moves.  Entry i is the entry of commit i.
PlanGroups(c) ==
  {BuildGroups(hg, [g \in 0..(SplitMsgSlots - 1) |-> ""]) :
     hg \in {h \in [0..(HunkCount(c) - 1) -> 0..2] : MaxOf(h) > 0}}
PlanActions(c) ==
  {Pick, Reword("w1"), Drop, Edit}
    \cup {Squash(j, None) : j \in CommitIds \ {c}}
    \cup {Fixup(j) : j \in {c - 1} \cap CommitIds}
    \cup {Split(gs) : gs \in PlanGroups(c)}

\* the planning session has returned Execute with one of these plans
PlanConfirmed ==
  /\ commits = [i \in CommitIds |-> i]
  /\ \E as \in [CommitIds -> UNION {PlanActions(c) : c \in CommitIds}] :
       /\ \A c \in CommitIds : as[c] \in PlanActions(c)
       /\ \E c \in CommitIds : as[c] # Pick
       /\ entries = [c \in CommitIds |-> TodoEntry(c, as[c])]
       /\ hunks_cache = [c \in {d \in CommitIds : as[d].kind = "Split"} |-> RepoHunks(c)]
  /\ cursor = 0
  /\ mode = "Preview"
  /\ result = "Execute"
  /\ selected = [i \in CommitIds |-> FALSE]
  /\ reword_buffer = ""
  /\ hunks = EmptyVec
  /\ hunk_cursor = 0
  /\ hunk_groups = EmptyVec
  /\ split_messages = EmptyVec
  /\ split_msg_cursor = 0
  /\ split_editing_msg = FALSE
  /\ next_group = 1
  /\ squash_source = 0
  /\ status = ""
  /\ keys = 0

ExecInit ==
  /\ PlanConfirmed
  /\ CraftAt("execute_craft_plan", MaxKeys)
  /\ DecIdle
  /\ PatchIdle
  /\ x_pc = "start"
  /\ x_tmp = FALSE
  /\ x_msgs = EmptyVec
  /\ x_counter = 0
  /\ x_script = NoScript
  /\ x_engine = EngineIdle
  /\ x_output = NoOutput
  /\ x_log = <<>>
  /\ x_ran = NotRun
  /\ x_resets = <<>>
  /\ x_outcome = "none"
  /\ SeqIdle

ordered == Ordered(entries)
split_entries == SplitEntries(ordered)

\* a `?` or bail! leaves the function with this error
Return(outcome) ==
  /\ x_pc' = "returned"
  /\ x_outcome' = outcome

\* fs::create_dir_all(&tmp_dir)?
ExecCreateDir ==
  /\ x_pc = "start"
  /\ x_tmp' = TRUE
  /\ x_pc' = "write_sequence_editor"
  /\ UNCHANGED <<appVars, status, keys, patchVars, seqVars, craftVars, decVars, x_msgs, x_counter, x_script, x_engine,
                 x_output, x_log, x_ran, x_resets, x_outcome>>

ExecCreateDirErr ==
  /\ x_pc = "start"
  /\ Return("IoError")
  /\ UNCHANGED <<appVars, status, keys, patchVars, seqVars, craftVars, decVars, x_tmp, x_msgs, x_counter, x_script, x_engine,
                 x_output, x_log, x_ran, x_resets>>

\* write_sequence_editor(&tmp_dir, commits, &ordered)?
ExecWriteSequenceEditor ==
  /\ x_pc = "write_sequence_editor"
  /\ x_pc' = "write_commit_editor"
  /\ UNCHANGED <<appVars, status, keys, patchVars, seqVars, craftVars, decVars, x_tmp, x_msgs, x_counter, x_script, x_engine,
                 x_output, x_log, x_ran, x_resets, x_outcome>>

\* write_commit_editor(&tmp_dir, &editor_messages)?
ExecWriteCommitEditor ==
  /\ x_pc = "write_commit_editor"
  /\ x_counter' = 0
  /\ x_msgs' = EditorMessages(ordered)
  /\ x_pc' = "write_split_automation"
  /\ UNCHANGED <<appVars, status, keys, patchVars, seqVars, craftVars, decVars, x_tmp, x_script, x_engine,
                 x_output, x_log, x_ran, x_resets, x_outcome>>

\* write_split_automation(...)? when split_entries is not empty
ExecWriteSplitAutomation ==
  /\ x_pc = "write_split_automation"
  /\ IF VLen(split_entries) = 0
     THEN x_script' = NoScript /\ x_pc' = "rebase" /\ UNCHANGED x_outcome
     ELSE IF SplitPanics(hunks_cache, split_entries)
     THEN UNCHANGED x_script /\ Return("Panic")
     ELSE /\ x_script' = [some |-> TRUE, cmds |-> SplitScript(hunks_cache, split_entries)]
          /\ x_pc' = "rebase"
          /\ UNCHANGED x_outcome
  /\ UNCHANGED <<appVars, status, keys, patchVars, seqVars, craftVars, decVars, x_tmp, x_msgs, x_counter, x_engine,
                 x_output, x_log, x_ran, x_resets>>

\* an fs::write or make_executable of one of the three writers fails
ExecWriteErr ==
  /\ x_pc \in {"write_sequence_editor", "write_commit_editor", "write_split_automation"}
  /\ x_pc = "write_split_automation" => VLen(split_entries) > 0
  /\ Return("ScriptIOError")
  /\ UNCHANGED <<appVars, status, keys, patchVars, seqVars, craftVars, decVars, x_tmp, x_msgs, x_counter, x_script, x_engine,
                 x_output, x_log, x_ran, x_resets>>

\* Command::new("git") ... rebase -i ... .output()?  The engine runs the
\* sequence editor on its todo and replays the result with the message
\* injector as GIT_EDITOR.
ExecRebase ==
  /\ x_pc = "rebase"
  /\ LET todo == SequenceEditor(ordered, InitialTodo(OldestIdx(entries))) IN
     \E conflict_at \in {0} \cup DOMAIN todo :
       LET r == Replay(todo, 1, conflict_at, TRUE, x_msgs, x_counter, x_log) IN
         /\ conflict_at # 0 => r.stop = "conflict" /\ r.at = conflict_at
         /\ \E has_root \in BOOLEAN :
              x_engine' = [todo |-> todo, stop |-> r.stop, at |-> r.at,
                           base |-> BaseSha(OldestIdx(entries), has_root)]
         /\ x_counter' = r.counter
         /\ x_log' = r.log
         /\ \E out, err \in BOOLEAN :
              /\ r.stop = "conflict" => out \/ err
              /\ r.stop # "conflict" => ~out /\ ~err
              /\ x_output' = [success |-> r.stop \in {"done", "edit"},
                              stdout_marker |-> out, stderr_marker |-> err]
  /\ x_pc' = IF x_script.some THEN "status" ELSE "cleanup"
  /\ UNCHANGED <<appVars, status, keys, patchVars, seqVars, craftVars, decVars, x_tmp, x_msgs, x_script, x_ran, x_resets, x_outcome>>

\* the git process cannot be spawned
ExecRebaseErr ==
  /\ x_pc = "rebase"
  /\ Return("IoError")
  /\ UNCHANGED <<appVars, status, keys, patchVars, seqVars, craftVars, decVars, x_tmp, x_msgs, x_counter, x_script, x_engine,
                 x_output, x_log, x_ran, x_resets>>

\* sh auto-split.sh: the commands run in order against the paused engine and
\* the script stops at the first command that fails (set -e).  `fail_at` is the
\* apply command that does not apply (0: none), `conflict_at` the todo line
\* whose replay conflicts after a continue (0: none).
RunScript(script, engine, fail_at, conflict_at, msgs, counter, log) ==
  LET RECURSIVE Go(_, _, _, _, _)
      Go(k, eng, ctr, lg, resets) ==
        LET st == [engine |-> eng, counter |-> ctr, log |-> lg, resets |-> resets]
        IN
        IF k > Len(script) THEN st @@ [success |-> TRUE]
        ELSE IF script[k].op = "reset"
             THEN Go(k + 1, eng, ctr, lg,
                     Append(resets, [commit_idx |-> script[k].commit_idx,
                                     stop |-> eng.stop,
                                     sha |-> IF eng.at = 0 THEN -1 ELSE eng.todo[eng.at].sha]))
        ELSE IF script[k].op = "apply"
             THEN IF k = fail_at THEN st @@ [success |-> FALSE]
                  ELSE Go(k + 1, eng, ctr, lg, resets)
        ELSE IF script[k].op = "commit" THEN Go(k + 1, eng, ctr, lg, resets)
        ELSE \* git rebase --continue, with the caller's own GIT_EDITOR
             IF eng.stop # "edit" THEN st @@ [success |-> FALSE]
             ELSE LET r == Replay(eng.todo, eng.at + 1, conflict_at, FALSE, msgs, ctr, lg)
                      eng2 == [eng EXCEPT !.stop = r.stop, !.at = r.at]
                  IN IF r.stop \in {"done", "edit"}
                     THEN Go(k + 1, eng2, r.counter, r.log, resets)
                     ELSE [engine |-> eng2, counter |-> r.counter, log |-> r.log,
                           resets |-> resets, success |-> FALSE]
  IN Go(1, engine, counter, log, <<>>)

\* `git status` prints "interactive rebase" while a rebase is in progress;
\* otherwise it contains "edit" only through a name, such as the branch's
StatusMatches(engine, name_has_edit) == RebaseInProgress(engine) \/ name_has_edit

\* if let Some(script) = split_script: git status, then run_split_automation(..)?
ExecStatus ==
  /\ x_pc = "status"
  /\ \E name_has_edit \in BOOLEAN :
       IF StatusMatches(x_engine, name_has_edit)
       THEN \E fail_at \in {0} \cup {k \in DOMAIN x_script.cmds : x_script.cmds[k].op = "apply"} :
            \E conflict_at \in {0} \cup {n \in DOMAIN x_engine.todo : n > x_engine.at} :
              LET r == RunScript(x_script.cmds, x_engine, fail_at, conflict_at,
                                 x_msgs, x_counter, x_log) IN
                /\ x_engine' = r.engine
                /\ x_counter' = r.counter
                /\ x_log' = r.log
                /\ x_resets' = r.resets
                /\ x_ran' = [ran |-> TRUE, stop |-> x_engine.stop,
                             sha |-> IF x_engine.at = 0 THEN -1
                                     ELSE x_engine.todo[x_engine.at].sha]
                /\ IF r.success THEN x_pc' = "cleanup" /\ UNCHANGED x_outcome
                   ELSE Return("SplitAutomationFailed")
       ELSE /\ x_pc' = "cleanup"
            /\ UNCHANGED <<x_engine, x_counter, x_log, x_ran, x_resets, x_outcome>>
  /\ UNCHANGED <<appVars, status, keys, patchVars, seqVars, craftVars, decVars, x_tmp, x_msgs, x_script, x_output>>

\* fs::remove_dir_all(&tmp_dir).ok()
ExecCleanup ==
  /\ x_pc = "cleanup"
  /\ x_tmp' = FALSE
  /\ x_pc' = "classify"
  /\ UNCHANGED <<appVars, status, keys, patchVars, seqVars, craftVars, decVars, x_msgs, x_counter, x_script, x_engine,
                 x_output, x_log, x_ran, x_resets, x_outcome>>

\* stderr.contains("CONFLICT") || stderr.contains("could not apply")
ConflictDetected(output) == output.stderr_marker

\* if !output.status.success() { ... bail! ... } Ok(())
ExecClassify ==
  /\ x_pc = "classify"
  /\ Return(IF x_output.success THEN "Ok"
            ELSE IF ConflictDetected(x_output) THEN "RebaseConflict"
            ELSE "RebaseFailed")
  /\ UNCHANGED <<appVars, status, keys, patchVars, seqVars, craftVars, decVars, x_tmp, x_msgs, x_counter, x_script, x_engine,
                 x_output, x_log, x_ran, x_resets>>

execute_craft_plan ==
  \/ ExecCreateDir
  \/ ExecCreateDirErr
  \/ ExecWriteSequenceEditor
  \/ ExecWriteCommitEditor
  \/ ExecWriteSplitAutomation
  \/ ExecWriteErr
  \/ ExecRebase
  \/ ExecRebaseErr
  \/ ExecStatus
  \/ ExecCleanup
  \/ ExecClassify

SpecExec == ExecInit /\ [][execute_craft_plan]_vars

(***************************************************************************)
(* Message injector (write_commit_editor): the files are written, then the *)
(* hook msg-editor.sh is invoked any number of times.                      *)
(***************************************************************************)
MessageVecs == UNION {[0..(k - 1) -> TypedTexts] : k \in 0..MaxMsgs}

\* write_commit_editor(tmp_dir, messages) has returned
HookInit ==
  /\ AppNew
  /\ status = ""
  /\ keys = 0
  /\ CraftAt("idle", MaxKeys)
  /\ DecIdle
  /\ PatchIdle
  /\ SeqIdle
  /\ x_pc = "idle"
  /\ x_tmp = TRUE
  /\ x_msgs \in MessageVecs
  /\ x_counter = 0
  /\ x_script = NoScript
  /\ x_engine = EngineIdle
  /\ x_output = NoOutput
  /\ x_log = <<>>
  /\ x_ran = NotRun
  /\ x_resets = <<>>
  /\ x_outcome = "none"

\* one run of msg-editor.sh
HookInvoke ==
  /\ Len(x_log) < MaxInvocations
  /\ x_log' = Append(x_log, MessageEditor(x_msgs, x_counter, -1))
  /\ x_counter' = x_counter + 1
  /\ UNCHANGED <<appVars, status, keys, patchVars, seqVars, craftVars, decVars, x_pc, x_tmp, x_msgs, x_script,
                 x_engine, x_output, x_ran, x_resets, x_outcome>>

SpecHook == HookInit /\ [][HookInvoke]_vars

(***************************************************************************)
(* Sequence transform (write_sequence_editor, build_reorder_script): the   *)
(* script is written from a plan and run on a todo text, then on its own   *)
(* output.                                                                  *)
(***************************************************************************)
\* one action per keyword for commit c
SeqActions(c) ==
  {Pick, Reword("w1"), Drop, Edit, Squash((c + 1) % NumCommits, None)}
    \cup {Fixup(j) : j \in {c - 1} \cap CommitIds}
    \cup {Split(BuildGroups([j \in 0..0 |-> 1], [g \in 0..(SplitMsgSlots - 1) |-> ""]))}

\* todo lines: the pick line of a loaded commit, the pick line of a commit
\* that was not loaded, a blank line, a comment that contains the newest
\* commit's short id, and a pick line whose subject contains another short id
TodoAlphabet ==
  {PickLine(c) : c \in CommitIds}
    \cup {TodoLine("pick", -2, {}), TodoLine("", -1, {}), TodoLine("#", -1, {0}),
          TodoLine("pick", NumCommits - 1, {0, NumCommits - 1})}
TodoTexts == UNION {[1..k -> TodoAlphabet] : k \in 1..MaxLines}

\* entries in load order: every entry is a Pick except the given ones
PlanOf(n, as) == [c \in 0..(n - 1) |-> TodoEntry(c, as[c])]

SeqInit ==
  /\ \/ /\ commits = [i \in CommitIds |-> i]
        /\ \E as \in [CommitIds -> UNION {SeqActions(c) : c \in CommitIds}] :
             /\ \A c \in CommitIds : as[c] \in SeqActions(c)
             /\ entries = PlanOf(NumCommits, as)
        /\ s_todo \in TodoTexts
     \/ /\ commits = [i \in 0..(LongPlan - 1) |-> i]
        /\ \E r \in 0..(LongPlan - 1) :
             entries = PlanOf(LongPlan, [c \in 0..(LongPlan - 1) |->
                                          IF c = r THEN Reword("w1") ELSE Pick])
        /\ s_todo = InitialTodo(LongPlan - 1)
  /\ cursor = 0
  /\ mode = "Preview"
  /\ result = "Execute"
  /\ selected = [i \in Idx(commits) |-> FALSE]
  /\ reword_buffer = ""
  /\ hunks = EmptyVec
  /\ hunk_cursor = 0
  /\ hunk_groups = EmptyVec
  /\ split_messages = EmptyVec
  /\ split_msg_cursor = 0
  /\ split_editing_msg = FALSE
  /\ next_group = 1
  /\ squash_source = 0
  /\ hunks_cache = EmptyVec
  /\ status = ""
  /\ keys = 0
  /\ CraftAt("idle", MaxKeys)
  /\ DecIdle
  /\ PatchIdle
  /\ ExecIdle
  /\ s_pc = "plan"
  /\ s_script = NoSeqScript
  /\ s_out = <<>>
  /\ s_out2 = <<>>

\* write_sequence_editor
SeqWrite ==
  /\ s_pc = "plan"
  /\ s_script' = WriteScript(ordered)
  /\ s_pc' = "written"
  /\ UNCHANGED <<appVars, status, keys, patchVars, execVars, craftVars, decVars, s_todo, s_out, s_out2>>

\* git runs GIT_SEQUENCE_EDITOR on the todo file
SeqRun ==
  /\ s_pc = "written"
  /\ s_out' = RunSeqScript(s_script, s_todo)
  /\ s_pc' = "once"
  /\ UNCHANGED <<appVars, status, keys, patchVars, execVars, craftVars, decVars, s_script, s_todo, s_out2>>

\* the script is run on the file it has rewritten
SeqRunAgain ==
  /\ s_pc = "once"
  /\ s_out2' = RunSeqScript(s_script, s_out)
  /\ s_pc' = "twice"
  /\ UNCHANGED <<appVars, status, keys, patchVars, execVars, craftVars, decVars, s_script, s_todo, s_out>>

SeqNext ==
  \/ SeqWrite
  \/ SeqRun
  \/ SeqRunAgain

SpecSeq == SeqInit /\ [][SeqNext]_vars

\* desired_order of n entries in load order: oldest first
Descending(n) == [k \in 0..(n - 1) |-> n - 1 - k]
\* the desired orders handed to build_reorder_script
DesiredOrders ==
  UNION {{d \in [0..(k - 1) -> CommitIds] : \A i, j \in 0..(k - 1) : i # j => d[i] # d[j]} :
           k \in 1..NumCommits}
    \cup {Descending(BigPlan)}

\* build_reorder_script alone: a script with no sed command
ReorderInit ==
  /\ AppNew
  /\ status = ""
  /\ keys = 0
  /\ CraftAt("idle", MaxKeys)
  /\ DecIdle
  /\ PatchIdle
  /\ ExecIdle
  /\ s_pc = "written"
  /\ \E d \in DesiredOrders : s_script = [cmds |-> EmptyVec, desired |-> d]
  /\ s_todo \in TodoTexts
  /\ s_out = <<>>
  /\ s_out2 = <<>>

ReorderNext ==
  \/ SeqRun
  \/ SeqRunAgain

SpecReorder == ReorderInit /\ [][ReorderNext]_vars

(***************************************************************************)
(* The commands (craft/mod.rs run_craft, reword/mod.rs run_reword): guard   *)
(* rails, commit loading, the planning session, the Pushed-Commit Guard and *)
(* the call of the executor.                                                *)
(***************************************************************************)
\* the git2::Status bits `repo.statuses(None)` reports (renames are not
\* detected with the default options)
StatusFlags ==
  {"INDEX_NEW", "INDEX_MODIFIED", "INDEX_DELETED", "INDEX_TYPECHANGE",
   "WT_NEW", "WT_MODIFIED", "WT_DELETED", "WT_TYPECHANGE",
   "IGNORED", "CONFLICTED"}
\* the bits validate_state passes to st.intersects
DirtyMask ==
  {"INDEX_NEW", "INDEX_MODIFIED", "INDEX_DELETED",
   "WT_MODIFIED", "WT_NEW", "WT_DELETED"}
\* the repositories a command is started in: on a branch or detached, with
\* no status entry or with entries of one kind
RepoStates ==
  [detached : BOOLEAN, flags : {{}} \cup {{f} : f \in StatusFlags}]

\* validate_state, both head_detached() and statuses() having returned Ok
validate_state(repo) ==
  IF repo.detached THEN "detached HEAD"
  ELSE IF repo.flags \cap DirtyMask # {} THEN "dirty working tree"
  ELSE "Ok"

\* what warn_pushed_commits reads: whether repo.head() resolves, the
\* branch's configured upstream ("none", "origin": origin/<branch>, "other":
\* any other remote branch) and its tip, the reference
\* refs/remotes/origin/<branch> and its tip, and whether graph_descendant_of
\* returns Ok.  A tip t is the newest loaded commit that the remote branch
\* contains; NumCommits stands for a tip that contains no loaded commit.
UpstreamStates ==
  {u \in [head_ok : BOOLEAN,
          tracking : {"none", "origin", "other"},
          tracking_tip : 0..NumCommits,
          origin_ref : {"missing", "direct", "symbolic"},
          origin_tip : 0..NumCommits,
          walk_ok : BOOLEAN] :
     /\ u.tracking = "none" => u.tracking_tip = NumCommits
     /\ u.origin_ref = "missing" => u.origin_tip = NumCommits
     /\ u.origin_ref # "direct" => u.walk_ok
     /\ u.tracking = "origin" => u.origin_ref # "missing" /\ u.origin_tip = u.tracking_tip
     /\ ~u.head_ok => /\ u.tracking = "none"
                      /\ u.origin_ref = "missing"}

\* the upstreams of the repositories a command is started in: no upstream,
\* and origin/<branch> tracked with commit 1 or no loaded commit pushed
CraftUpstreams ==
  {u \in UpstreamStates :
     /\ u.head_ok /\ u.walk_ok
     /\ u.origin_ref # "symbolic"
     /\ u.tracking # "other"
     /\ u.tracking = "none" => u.origin_ref = "missing"
     /\ u.tracking_tip \in {1, NumCommits}}

\* modified_indices: the original_idx of the non-Pick entries
modified_indices(es) ==
  {es[i].original_idx : i \in {j \in Idx(es) : es[j].action.kind # "Pick"}}

\* warn_pushed_commits: pushed_count > 0
Warns(u, modified) ==
  /\ u.head_ok
  /\ u.origin_ref = "direct"
  /\ \E i \in modified : (u.walk_ok /\ i > u.origin_tip) \/ i = u.origin_tip

\* no statement of the command changes the planning session, the executor
\* or the script models
CraftStep ==
  UNCHANGED <<appVars, status, keys, patchVars, seqVars, decVars>>

CraftInit ==
  /\ AppNew
  /\ status = ""
  /\ keys = 0
  /\ PatchIdle
  /\ ExecIdle
  /\ SeqIdle
  /\ c_cmd \in {"craft", "reword"}
  /\ c_pc = "validate_state"
  /\ c_repo \in RepoStates
  /\ c_keys = CraftKeys
  /\ c_loaded = FALSE
  /\ c_upstream \in CraftUpstreams
  /\ c_warned = FALSE
  /\ c_ret = "none"
  /\ DecIdle

\* validate_state(repo)?
CraftValidate ==
  /\ c_pc = "validate_state"
  /\ IF validate_state(c_repo) = "Ok"
     THEN c_pc' = "load_commits" /\ c_ret' = c_ret
     ELSE c_pc' = "returned" /\ c_ret' = "Err"
  /\ CraftStep
  /\ UNCHANGED <<execVars, c_cmd, c_repo, c_keys, c_loaded, c_upstream, c_warned>>

\* repo.head_detached()? or repo.statuses(None)? returns Err
CraftValidateErr ==
  /\ c_pc = "validate_state"
  /\ c_pc' = "returned"
  /\ c_ret' = "Err"
  /\ CraftStep
  /\ UNCHANGED <<execVars, c_cmd, c_repo, c_keys, c_loaded, c_upstream, c_warned>>

\* load_commits(repo, args.count)?, and the test commits.is_empty();
\* run_reword goes on to select_commits, run_craft to run_craft_tui
CraftLoad ==
  /\ c_pc = "load_commits"
  /\ c_loaded' = TRUE
  /\ \E loaded \in {"commits", "empty", "Err"} :
       CASE loaded = "commits" ->
              /\ c_pc' = IF c_cmd = "craft" THEN "tui" ELSE "select_commits"
              /\ c_ret' = c_ret
         [] loaded = "empty" -> c_pc' = "returned" /\ c_ret' = "Ok"
         [] loaded = "Err" -> c_pc' = "returned" /\ c_ret' = "Err"
  /\ CraftStep
  /\ UNCHANGED <<execVars, c_cmd, c_repo, c_keys, c_upstream, c_warned>>

\* run_craft_tui(..)? returns Err: a terminal call of the event loop failed
CraftTuiErr ==
  /\ c_pc = "tui"
  /\ result = "none"
  /\ c_pc' = "returned"
  /\ c_ret' = "Err"
  /\ CraftStep
  /\ UNCHANGED <<execVars, c_cmd, c_repo, c_keys, c_loaded, c_upstream, c_warned>>

\* match result: Cancel prints "cancelled"; Execute with action_count == 0
\* prints "no changes to apply"
CraftMatch ==
  /\ c_pc = "tui"
  /\ result \in {"Execute", "Cancel"}
  /\ IF result = "Execute" /\ modified_indices(entries) # {}
     THEN c_pc' = "warn_pushed_commits" /\ c_ret' = c_ret
     ELSE c_pc' = "returned" /\ c_ret' = "Ok"
  /\ CraftStep
  /\ UNCHANGED <<execVars, c_cmd, c_repo, c_keys, c_loaded, c_upstream, c_warned>>

\* warn_pushed_commits(repo, &commits, &modified_indices)
CraftWarn ==
  /\ c_pc = "warn_pushed_commits"
  /\ c_warned' = Warns(c_upstream, modified_indices(entries))
  /\ c_pc' = "execute_craft_plan"
  /\ CraftStep
  /\ UNCHANGED <<execVars, c_cmd, c_repo, c_keys, c_loaded, c_upstream, c_ret>>

\* execute::execute_craft_plan(&repo_path, &commits, &entries, &hunks_cache) is called
CraftExecute ==
  /\ c_pc = "execute_craft_plan"
  /\ x_pc = "idle"
  /\ x_pc' = "start"
  /\ CraftStep
  /\ UNCHANGED <<craftVars, decVars, x_tmp, x_msgs, x_counter, x_script, x_engine,
                 x_output, x_log, x_ran, x_resets, x_outcome>>

\* execute_craft_plan(..)? has returned; Ok prints "crafted {} action(s)"
CraftReturn ==
  /\ c_pc = "execute_craft_plan"
  /\ x_pc = "returned"
  /\ c_pc' = "returned"
  /\ c_ret' = IF x_outcome = "Ok" THEN "Ok" ELSE "Err"
  /\ CraftStep
  /\ UNCHANGED <<execVars, c_cmd, c_repo, c_keys, c_loaded, c_upstream, c_warned>>

run_craft ==
  \/ CraftValidate
  \/ CraftValidateErr
  \/ CraftLoad
  \/ CraftTuiErr
  \/ CraftMatch
  \/ CraftWarn
  \/ CraftExecute
  \/ CraftReturn

CraftNext ==
  \/ run_craft
  \/ handle_key
  \/ execute_craft_plan

SpecCraft == CraftInit /\ [][CraftNext]_vars

(***************************************************************************)
(* The Pushed-Commit Guard alone: warn_pushed_commits and the call of the   *)
(* executor that follows it, for every plan and every upstream.             *)
(***************************************************************************)
GuardInit ==
  /\ PlanConfirmed
  /\ PatchIdle
  /\ ExecIdle
  /\ SeqIdle
  /\ c_cmd = "craft"
  /\ c_pc = "warn_pushed_commits"
  /\ c_repo = CleanRepo
  /\ c_keys = MaxKeys
  /\ c_loaded = TRUE
  /\ c_upstream \in UpstreamStates
  /\ c_warned = FALSE
  /\ c_ret = "none"
  /\ DecIdle

GuardNext ==
  \/ CraftWarn
  \/ CraftExecute

SpecGuard == GuardInit /\ [][GuardNext]_vars

(***************************************************************************)
(* Hunk Decomposer (craft/split.rs, get_commit_hunks): the hunks of the     *)
(* diff are turned into Hunk values, line by line.                          *)
(***************************************************************************)
\* a byte string of the diff: whether it is valid UTF-8, and its text if so
Bytes(t, u) == [text |-> t, utf8 |-> u]
\* the header bytes libgit2 gives, and the header text after trim()
RawHeader(u) == Bytes("@@ -1 +1 @@\n", u)
Trimmed(t) == IF t = "@@ -1 +1 @@\n" THEN "@@ -1 +1 @@" ELSE t
\* a line of a hunk: line.origin() and line.content(); besides '+', '-' and
\* ' ' libgit2 has the end-of-file-newline origins, here "="
RawLines ==
  [origin : {"+", "-", " ", "="}, content : {Bytes("a\n", u) : u \in BOOLEAN}]
\* a hunk of the diff of the file "x"
RawHunks ==
  UNION {[header : {RawHeader(u) : u \in BOOLEAN},
          lines : [0..(n - 1) -> RawLines]] : n \in 1..MaxRawLines}
\* the diffs: one to MaxRawHunks hunks
RawDiffs == UNION {[0..(n - 1) -> RawHunks] : n \in 1..MaxRawHunks}

\* std::str::from_utf8(bytes).unwrap_or("")
Decode(b) == IF b.utf8 THEN b.text ELSE ""

\* the lines of a hunk: origins other than '+', '-', ' ' are skipped
DecodeLines(ls) ==
  LET RECURSIVE Go(_, _)
      Go(i, acc) ==
        IF i = VLen(ls) THEN acc
        ELSE Go(i + 1,
                IF ls[i].origin \in {"+", "-", " "}
                THEN Push(acc, [origin |-> ls[i].origin, content |-> Decode(ls[i].content)])
                ELSE acc)
  IN Go(0, EmptyVec)

\* hunks.push(Hunk { file_path, header, lines, .. })
DecodeHunk(h) ==
  [file_path |-> "x", header |-> Trimmed(Decode(h.header)), lines |-> DecodeLines(h.lines)]

DecInit ==
  /\ AppNew
  /\ status = ""
  /\ keys = 0
  /\ CraftAt("idle", MaxKeys)
  /\ PatchIdle
  /\ ExecIdle
  /\ SeqIdle
  /\ d_pc = "start"
  /\ d_diff \in RawDiffs
  /\ d_result = [ok |-> FALSE, hunks |-> EmptyVec]

\* get_commit_hunks returns Ok(hunks)
DecOk ==
  /\ d_pc = "start"
  /\ d_pc' = "returned"
  /\ d_result' = [ok |-> TRUE, hunks |-> [j \in Idx(d_diff) |-> DecodeHunk(d_diff[j])]]
  /\ UNCHANGED <<appVars, status, keys, patchVars, execVars, seqVars, craftVars, d_diff>>

\* a libgit2 call fails: find_commit, tree, diff_tree_to_tree, Patch::from_diff,
\* hunk, num_lines_in_hunk or line_in_hunk, each followed by `?`
DecErr ==
  /\ d_pc = "start"
  /\ d_pc' = "returned"
  /\ d_result' = [ok |-> FALSE, hunks |-> EmptyVec]
  /\ UNCHANGED <<appVars, status, keys, patchVars, execVars, seqVars, craftVars, d_diff>>

get_commit_hunks ==
  \/ DecOk
  \/ DecErr

SpecHunks == DecInit /\ [][get_commit_hunks]_vars

Next == handle_key

Spec == Init /\ [][Next]_vars

(***************************************************************************)
(* Claims                                                                  *)
(***************************************************************************)
\* the todo text the engine replays for the plan in `entries`
PlanTodo == SequenceEditor(Ordered(entries), InitialTodo(OldestIdx(entries)))

\* the display order, oldest first
DisplayOldestFirst == [n \in 1..VLen(commits) |-> commits[VLen(commits) - n]]

\* C1: every entry's original_idx identifies the commit displayed at the
\* entry's position, whatever reorder moves and action assignments were made.
C1_OriginalIdxFollowsCommit ==
  \A i \in Idx(entries) : entries[i].original_idx = commits[i]

\* C2: when the plan is executed, the sequence transform arranges the todo
\* lines in the display order left by the reorder moves, oldest first (stated
\* for plans whose original_idx values are intact).
C2_TodoFollowsDisplayOrder ==
  (result = "Execute" /\ C1_OriginalIdxFollowsCommit)
     => TodoCommits(PlanTodo) = DisplayOldestFirst

\* C4: entries always holds one TodoEntry per loaded commit: its length is the
\* number of loaded commits and the original_idx values are a permutation of 0..n-1.
C4_OneEntryPerCommit ==
  /\ VLen(entries) = NumCommits
  /\ {entries[i].original_idx : i \in Idx(entries)} = CommitIds

\* f2 is f with positions i and j exchanged
Exchanged(f, f2, i, j) ==
  /\ DOMAIN f2 = DOMAIN f
  /\ \A k \in DOMAIN f : f2[k] = IF k = i THEN f[j] ELSE IF k = j THEN f[i] ELSE f[k]

CountIdx(es, v) == Cardinality({k \in Idx(es) : es[k].original_idx = v})

\* C5: every key handled in ReorderMode keeps the lengths of commits, entries
\* and selected, keeps the multiset of original_idx values, and applies one
\* and the same exchange of adjacent positions to all three arrays, or none.
C5_ReorderKeepsArraysAligned ==
  [][(mode = "ReorderMode" /\ result = "none") =>
       /\ \A v \in 0..NumCommits : CountIdx(entries', v) = CountIdx(entries, v)
       /\ \E i \in Idx(commits) : \E j \in {i, i + 1} \cap Idx(commits) :
            /\ Exchanged(commits, commits', i, j)
            /\ Exchanged(entries, entries', i, j)
            /\ Exchanged(selected, selected', i, j)]_vars

\* C5 witness: in ReorderMode the newest commit has been moved to the last
\* position, with its entry and its selection flag.
C5_Witness ==
  /\ mode = "ReorderMode"
  /\ commits[NumCommits - 1] = 0
  /\ entries[NumCommits - 1].original_idx = 0
  /\ selected[NumCommits - 1]
  /\ cursor = NumCommits - 1

\* the commands of the split script that belong to commit c
CommitCmds(script, c) == SelectSeq(script, LAMBDA cmd : cmd.commit_idx = c)
\* the commits the recipes reset, in script order
ResetOrder(script) ==
  LET rs == SelectSeq(script, LAMBDA cmd : cmd.op = "reset")
  IN [n \in DOMAIN rs |-> rs[n].commit_idx]

\* C9: in an executed plan every commit with a Split action of k groups has
\* exactly one recipe in the split script (reset, then apply and commit per
\* group in group order, then continue), recipes come oldest first, and there
\* is exactly one patch file per (commit, group), holding that group's hunks
\* of that commit.
C9_OneRecipePerSplitCommit ==
  result = "Execute" =>
    LET se == SplitEntries(Ordered(entries))
        script == SplitScript(hunks_cache, se)
        files == PatchFiles(hunks_cache, se)
        order == ResetOrder(script)
    IN /\ ~SplitPanics(hunks_cache, se)
       /\ \A a, b \in DOMAIN order : a < b => order[a] > order[b]
       /\ \A i \in Idx(entries) :
            entries[i].action.kind = "Split" =>
              LET c == entries[i].original_idx
                  groups == entries[i].action.groups
              IN /\ CommitCmds(script, c) = Recipe(c, groups)
                 /\ {nm \in DOMAIN files : nm[1] = c} = {<<c, g>> : g \in Idx(groups)}
                 /\ \A g \in Idx(groups) :
                      /\ ~PatchPanics(RepoHunks(c), groups[g].hunk_indices)
                      /\ files[<<c, g>>] =
                           generate_patch_for_hunks(RepoHunks(c), groups[g].hunk_indices)
\* the hunk headers of a patch, in order
PatchHunks(patch) ==
  LET hs == SelectSeq(patch, LAMBDA pc : pc.tag = "@@")
  IN [n \in DOMAIN hs |-> hs[n].header]
\* the files of the "--- a/" header lines of a patch, in order
PatchFileHeaders(patch) ==
  LET hs == SelectSeq(patch, LAMBDA pc : pc.tag = "--- a/")
  IN [n \in DOMAIN hs |-> hs[n].file]
\* every "--- a/f" line is directly followed by the "+++ b/f" line, and there
\* is no other "+++ b/" line
HeaderPairs(patch) ==
  \A n \in DOMAIN patch :
     /\ patch[n].tag = "--- a/" =>
          n < Len(patch) /\ patch[n + 1] = PlusHeader(patch[n].file)
     /\ patch[n].tag = "+++ b/" =>
          n > 1 /\ patch[n - 1] = MinusHeader(patch[n].file)
\* the files of the selected hunks, each once, in first-occurrence order
FirstOccurrences(hs, sel) ==
  LET RECURSIVE Go(_, _)
      Go(k, acc) ==
        IF k >= VLen(sel) THEN acc
        ELSE LET f == hs[sel[k]].file_path IN
             Go(k + 1, IF \E n \in DOMAIN acc : acc[n] = f THEN acc ELSE Append(acc, f))
  IN Go(0, <<>>)
\* the hunks of every file are adjacent in the list
GroupedByFile(hs) ==
  \A i, j, k \in Idx(hs) :
     (i < j /\ j < k /\ hs[i].file_path = hs[k].file_path)
        => hs[j].file_path = hs[i].file_path

\* what C10 says of a synthesized patch
ExactPatch(hs, sel, patch) ==
  /\ PatchHunks(patch) = [n \in 1..VLen(sel) |-> hs[sel[n - 1]].header]
  /\ \A n \in DOMAIN patch :
       patch[n].tag = "@@" =>
         \E k \in Idx(sel) :
            /\ hs[sel[k]].header = patch[n].header
            /\ \A l \in Idx(hs[sel[k]].lines) :
                 /\ n + 2 * l + 2 <= Len(patch)
                 /\ patch[n + 2 * l + 1].tag = hs[sel[k]].lines[l].origin
                 /\ patch[n + 2 * l + 2].text = hs[sel[k]].lines[l].text
  /\ HeaderPairs(patch)
  /\ PatchFileHeaders(patch) = FirstOccurrences(hs, sel)

\* C10 as stated: for any hunk list, with any assignment of file paths to
\* hunks, and any ascending selection, the patch holds exactly the selected
\* hunks in ascending order and the header pair of each distinct file once,
\* files in first-occurrence order.
C10_AnyHunkList ==
  p_done => ExactPatch(p_hunks, p_selected, p_patch)

\* C10 amended: the same for every hunk list in which the hunks of each file
\* are adjacent, which is how the Hunk Decomposer lists them.
C10_GroupedHunkList ==
  (p_done /\ GroupedByFile(p_hunks)) => ExactPatch(p_hunks, p_selected, p_patch)

\* C10 witness: a patch synthesized from hunks 0 and 2 of a list whose hunks
\* 0, 1 and 2 belong to one file: the selected hunks of that file are not
\* adjacent in the list, and the patch has one header pair.
C10_Witness ==
  /\ p_done
  /\ GroupedByFile(p_hunks)
  /\ VLen(p_hunks) >= 3
  /\ p_selected = [k \in 0..1 |-> 2 * k]
  /\ p_hunks[0].file_path = p_hunks[2].file_path
  /\ Len(PatchFileHeaders(p_patch)) = 1
  /\ Len(PatchHunks(p_patch)) = 2
\* the action the plan holds for the commit with short id sha
PlannedAction(sha) ==
  LET i == CHOOSE k \in Idx(entries) : entries[k].original_idx = sha
  IN entries[i].action
CarriesMessage(action, m) ==
  \/ action.kind = "Reword" /\ action.msg = m
  \/ action.kind = "Squash" /\ action.message = m

\* C3: every message the message injector copies goes to the commit whose
\* Reword (or Squash-with-message) entry carries it: the k-th invocation of the
\* hook is for the k-th such entry, and no other commit's message is overwritten.
C3_MessagesReachTheirCommit ==
  \A n \in DOMAIN x_log :
     (x_log[n].hooked /\ x_log[n].served # "untouched")
        => CarriesMessage(PlannedAction(x_log[n].sha), x_log[n].served)

\* C6: whenever the executor has returned, on any path, the temporary
\* directory it created has been removed.
C6_TmpDirRemovedOnReturn ==
  x_pc = "returned" => ~x_tmp

\* C7: a non-success exit of the rebase whose stdout or stderr contains a
\* conflict marker is never reported as RebaseFailed (it is RebaseConflict).
C7_ConflictOnEitherStream ==
  (/\ x_pc = "returned"
   /\ ~x_output.success
   /\ x_output.stdout_marker \/ x_output.stderr_marker)
     => x_outcome # "RebaseFailed"

\* C8: the split script is run only while the rebase is paused at the edit
\* stop of a commit planned as Split, and every recipe resets the commit it
\* was generated for.
C8_SplitScriptOnlyAtSplitStop ==
  /\ x_ran.ran =>
       /\ x_ran.stop = "edit"
       /\ PlannedAction(x_ran.sha).kind = "Split"
  /\ \A n \in DOMAIN x_resets :
       /\ x_resets[n].stop = "edit"
       /\ x_resets[n].sha = x_resets[n].commit_idx
\* this step is a split finalize (Enter in SplitView, which unlike Esc leaves
\* a status) that was not rejected
SplitWritten ==
  /\ mode = "SplitView"
  /\ mode' = "CommitList"
  /\ status' \notin {"", "no hunks assigned to groups"}
\* the set of elements of a Vec
Elems(f) == {f[k] : k \in Idx(f)}
\* the group numbers that have at least one hunk
UsedGroups(hg) == Elems(hg) \ {0}

\* C11: the Split action finalize_split writes has groups that are non-empty,
\* pairwise disjoint, made of valid indices into the hunk list of the commit
\* being split, in ascending order, one group per group number in use.
C11_SplitGroupsWellFormed ==
  [][SplitWritten =>
       LET a == entries'[cursor].action
           hs == RepoHunks(commits[cursor])
       IN /\ a.kind = "Split"
          /\ \A g \in Idx(a.groups) :
               LET ix == a.groups[g].hunk_indices IN
                 /\ VLen(ix) > 0
                 /\ Elems(ix) \subseteq Idx(hs)
                 /\ \A k \in Idx(ix) : k > 0 => ix[k - 1] < ix[k]
          /\ \A g, h \in Idx(a.groups) :
               g # h => Elems(a.groups[g].hunk_indices)
                          \cap Elems(a.groups[h].hunk_indices) = {}
          /\ VLen(a.groups) = Cardinality(UsedGroups(hunk_groups))
          /\ \A n \in UsedGroups(hunk_groups) :
               \E g \in Idx(a.groups) :
                  Elems(a.groups[g].hunk_indices) = {i \in Idx(hunk_groups) : hunk_groups[i] = n}]_vars

\* C11 witness: a split finalized with hunk 0 in group 2, hunk 1 in group 1:
\* two groups, group 1 first, each with its one hunk.
C11_Witness ==
  /\ mode = "CommitList"
  /\ status = "split {} into {} parts"
  /\ hunk_groups = [j \in 0..1 |-> 2 - j]
  /\ entries[cursor].action.kind = "Split"
  /\ VLen(entries[cursor].action.groups) = 2
  /\ entries[cursor].action.groups[0].hunk_indices = [k \in 0..0 |-> 1]
  /\ entries[cursor].action.groups[1].hunk_indices = [k \in 0..0 |-> 0]

\* C12: whenever finalize_split succeeds while a hunk is assigned to no
\* group, the status it leaves is a warning about the unassigned hunks, not
\* the plain success message.
C12_UnassignedHunksWarned ==
  [][(SplitWritten /\ \E i \in Idx(hunk_groups) : hunk_groups[i] = 0)
       => status' # "split {} into {} parts"]_vars
\* how often a line occurs in a todo text
Occurrences(lines, l) == Cardinality({n \in DOMAIN lines : lines[n] = l})
\* two todo texts hold the same lines, each as often
SameLines(a, b) ==
  /\ Len(a) = Len(b)
  /\ \A n \in DOMAIN a : Occurrences(a, a[n]) = Occurrences(b, a[n])
\* the keyword the plan maps the commit with short id sha to
PlannedKeyword(sha) ==
  LET k == PlannedAction(sha).kind IN
    CASE k = "Reword" -> "reword"
      [] k = "Squash" -> "squash"
      [] k = "Fixup" -> "fixup"
      [] k = "Drop" -> "drop"
      [] k \in {"Split", "Edit"} -> "edit"
      [] OTHER -> "pick"
\* the line as the claim expects it after the keyword substitution
Substituted(l) ==
  IF /\ l.keyword = "pick"
     /\ \E i \in Idx(entries) : entries[i].original_idx = l.sha
     /\ PlannedAction(l.sha).kind # "Pick"
  THEN [l EXCEPT !.keyword = PlannedKeyword(l.sha)]
  ELSE l

\* C13: the sequence transform rewrites the keyword of a line exactly when it
\* is the pick line of a commit with a non-Pick entry, to that entry's keyword
\* (Split and Edit both become edit); every other line is left as it was.
C13_KeywordSubstitution ==
  s_pc \in {"once", "twice"} =>
    SameLines(s_out, [n \in DOMAIN s_todo |-> Substituted(s_todo[n])])

\* C13 witness: a plan with a Split, an Edit and a Pick entry was run on the
\* three pick lines: the result is edit, edit, pick.
C13_Witness ==
  /\ s_pc = "once"
  /\ entries[2].action.kind = "Split"
  /\ entries[1].action.kind = "Edit"
  /\ entries[0].action.kind = "Pick"
  /\ s_todo = <<PickLine(2), PickLine(1), PickLine(0)>>
  /\ s_out = <<TodoLine("edit", 2, {2}), TodoLine("edit", 1, {1}), PickLine(0)>>

\* the line matches one of the short ids of the awk script
Matched(l) == \E i \in Idx(s_script.desired) : s_script.desired[i] \in l.shas
\* the subsequence of the lines that match no short id
UnmatchedLines(lines) == SelectSeq(lines, LAMBDA l : ~Matched(l))

\* C14: for every todo text the output of the reordering is a permutation of
\* the input lines: no line is dropped, none is duplicated.
C14_ReorderIsPermutation ==
  /\ s_pc \in {"once", "twice"} => SameLines(s_out, s_todo)
  /\ s_pc = "twice" => SameLines(s_out2, s_out)

\* C14 witness: a text with a blank line, a line of a commit that was not
\* loaded and a line that matches two short ids has been reordered.
C14_Witness ==
  /\ s_pc = "once"
  /\ VLen(s_script.desired) = NumCommits
  /\ s_todo = <<TodoLine("", -1, {}), TodoLine("pick", -2, {}),
               TodoLine("pick", NumCommits - 1, {0, NumCommits - 1})>>
  /\ s_out = <<TodoLine("pick", NumCommits - 1, {0, NumCommits - 1}),
              TodoLine("", -1, {}), TodoLine("pick", -2, {})>>

\* C15: in the output every line that matches no short id comes after every
\* line that matches one, and the unmatched lines keep their relative order,
\* whatever the number of entries and of lines.
C15_UnmatchedLinesLast ==
  s_pc \in {"once", "twice"} =>
    /\ \A i, j \in DOMAIN s_out : (i < j /\ ~Matched(s_out[i])) => ~Matched(s_out[j])
    /\ UnmatchedLines(s_out) = UnmatchedLines(s_todo)

\* C16: the sequence transform run on its own output yields the identical
\* text, same lines in the same order.
C16_TransformIdempotent ==
  s_pc = "twice" => s_out2 = s_out
\* C17: the hook copies message file i only when i is below the number of
\* messages, leaves the destination untouched from then on, and raises the
\* counter by one per invocation, so no message file is served twice.
C17_HookServesWithinRange ==
  /\ x_counter = Len(x_log)
  /\ \A n \in DOMAIN x_log :
       /\ x_log[n].idx = n - 1
       /\ x_log[n].idx < VLen(x_msgs) => x_log[n].served = x_msgs[x_log[n].idx]
       /\ x_log[n].idx >= VLen(x_msgs) => x_log[n].served = "untouched"
  /\ \A n, m \in DOMAIN x_log : n # m => x_log[n].idx # x_log[m].idx

\* C17 witness: two messages, four invocations: the first two served their
\* message, the last two left the destination untouched.
C17_Witness ==
  /\ x_pc = "idle"
  /\ VLen(x_msgs) = 2
  /\ Len(x_log) = 4
  /\ x_log[1].served = x_msgs[0]
  /\ x_log[2].served = x_msgs[1]
  /\ x_log[3].served = "untouched"
  /\ x_log[4].served = "untouched"
\* the oldest commit of the plan that is not a Pick
OldestTouched ==
  LET T == {entries[i].original_idx : i \in {j \in Idx(entries) : entries[j].action.kind # "Pick"}}
  IN CHOOSE t \in T : \A u \in T : u <= t
\* the commits on the command lines of the engine's todo
RebasedRange == {x_engine.todo[n].sha : n \in {k \in DOMAIN x_engine.todo : IsCommand(x_engine.todo[k])}}

RewordOnB ==
  /\ entries[1].action.kind = "Reword"
  /\ \A i \in Idx(entries) : i # 1 => entries[i].action.kind = "Pick"

\* C19: with Reword assigned to B only, the base is the parent of A, the
\* oldest loaded commit, and all loaded commits are replayed, oldest first.
C19_RewordBKeepsWholeRange ==
  (x_engine.stop # "none" /\ ~x_engine.base.root /\ RewordOnB) =>
    /\ x_engine.base.sha = (NumCommits - 1) + 1
    /\ TodoCommits(x_engine.todo) = [n \in 1..NumCommits |-> NumCommits - n]

\* C19 witness: the rebase of the Reword-on-B plan is done; the hook was
\* invoked once, for B, and served B's message.
C19_Witness ==
  /\ RewordOnB
  /\ x_engine.stop = "done"
  /\ ~x_engine.base.root
  /\ Len(x_log) = 1
  /\ x_log[1].sha = 1
  /\ x_log[1].served = entries[1].action.msg
\* every Squash or Fixup entry of the plan es names another commit than its own
IntoOther(es) ==
  \A i \in Idx(es) :
    es[i].action.kind \in {"Squash", "Fixup"} =>
      es[i].action.into_idx # es[i].original_idx

\* C20: every Plan Builder step leaves each Squash and Fixup entry with an
\* into_idx different from its own original_idx; no key pressed in the squash
\* target picker while the cursor is on the source writes an entry, and no key
\* pressed in the action menu of the first row writes a Fixup.
C20_SquashFixupNeverSelf ==
  [][/\ IntoOther(entries) /\ IntoOther(entries')
     /\ (mode = "SquashTarget" /\ cursor = squash_source) => entries' = entries
     /\ (mode = "ActionMenu" /\ cursor = 0 /\ entries' # entries) =>
          entries'[0].action.kind # "Fixup"
     /\ status' = "cannot fixup first commit" => entries' = entries]_vars

\* C20 witness: a fixup on the first row has just been refused while the plan
\* holds a Squash entry and a Fixup entry written by earlier keys.
C20_Witness ==
  /\ status = "cannot fixup first commit"
  /\ mode = "CommitList"
  /\ \E i \in Idx(entries) : entries[i].action.kind = "Squash"
  /\ \E i \in Idx(entries) : entries[i].action.kind = "Fixup"
\* C21: a key that leaves SplitView while no hunk has a group, and a key that
\* leaves SquashTarget while the cursor is on the squash source, change no
\* entry of the plan.
C21_RejectedLeavesPlan ==
  [][/\ (mode = "SplitView" /\ ~split_editing_msg /\ mode' = "CommitList"
           /\ MaxOf(hunk_groups) = 0) => entries' = entries
     /\ (mode = "SquashTarget" /\ mode' = "CommitList"
           /\ cursor = squash_source) => entries' = entries]_vars

\* C21 witness: finalize has just been refused on a plan that already holds an
\* action, which is still there.
C21_Witness ==
  /\ mode = "CommitList"
  /\ status = "no hunks assigned to groups"
  /\ has_actions

\* C22: the refused finalize (the step that sets the warning while no hunk has
\* a group) leaves the builder in SplitView, and the refused squash confirm
\* (the step on the source that touches neither cursor nor status) leaves it
\* in SquashTarget.
C22_RejectedKeepsMode ==
  [][/\ (mode = "SplitView" /\ ~split_editing_msg /\ MaxOf(hunk_groups) = 0
           /\ status' = "no hunks assigned to groups") => mode' = "SplitView"
     /\ (mode = "SquashTarget" /\ cursor = squash_source /\ cursor' = cursor
           /\ status' = status) => mode' = "SquashTarget"]_vars
\* C23: the escape key of a sub-state returns to CommitList and leaves the
\* entries, the display order of the commits and the hunk cache as they are.
\* (No key other than escape changes the entries inside ActionMenu,
\* RewordEdit, SplitView, SquashTarget or Preview, so for these modes "as they
\* are" is "as they were when the sub-state was entered".)
C23_EscapeDiscards ==
  [][(ActionMenuEsc \/ RewordEditEsc \/ SplitEsc \/ SquashEsc \/ ReorderDone \/ PreviewEsc) =>
       /\ mode' = "CommitList"
       /\ entries' = entries
       /\ commits' = commits
       /\ hunks_cache' = hunks_cache]_vars
\* C24: the step that leaves RewordEdit ends in CommitList; it puts
\* Reword(text) on the entry under the cursor exactly when the text is not
\* empty and is not the message of the commit under the cursor, leaves that
\* entry's action alone otherwise, and changes no other entry.
C24_RewordWrittenIffChanged ==
  [][(mode = "RewordEdit" /\ mode' # "RewordEdit") =>
       LET changed == /\ reword_buffer # ""
                      /\ reword_buffer # CommitMessage(commits[cursor])
       IN /\ mode' = "CommitList"
          /\ changed => entries'[cursor].action = [kind |-> "Reword", msg |-> reword_buffer]
          /\ ~changed => entries'[cursor].action = entries[cursor].action
          /\ \A i \in Idx(entries) : i # cursor => entries'[i] = entries[i]]_vars

\* C24 witness: a reword has just been saved on the commit under the cursor,
\* next to another entry that holds an action.
C24_Witness ==
  /\ mode = "CommitList"
  /\ status = "reword {}"
  /\ entries[cursor].action.kind = "Reword"
  /\ entries[cursor].action.msg = reword_buffer
  /\ \E i \in Idx(entries) : i # cursor /\ entries[i].action.kind # "Pick"
\* the modes entered from the action menu
EditModes == {"RewordEdit", "SplitView", "SquashTarget", "ReorderMode"}
\* where ActionMenu, Preview and the edit modes are entered from, and where
\* the outcomes are produced
EnteredFrom ==
  /\ (mode' # mode /\ mode' \in {"ActionMenu", "Preview"}) => mode = "CommitList"
  /\ (mode' # mode /\ mode' \in EditModes) => mode = "ActionMenu"
  /\ (result' # result /\ result' = "Execute") => mode = "Preview"
  /\ (result' # result /\ result' = "Cancel") => mode = "CommitList"

\* C26 as stated: the session starts in CommitList, the modes are entered as
\* EnteredFrom says, and every mode other than CommitList changes to
\* CommitList only.
C26_ModeGraphAsStated ==
  /\ mode = "CommitList"
  /\ [][/\ EnteredFrom
        /\ (mode' # mode /\ mode # "CommitList") => mode' = "CommitList"]_vars

\* C26 amended: the session starts in CommitList, the modes are entered as
\* EnteredFrom says, ActionMenu changes to CommitList or to one of the four
\* edit modes, and every other mode except CommitList changes to CommitList
\* only.
C26_ModeGraph ==
  /\ mode = "CommitList"
  /\ [][/\ EnteredFrom
        /\ (mode' # mode /\ mode = "ActionMenu") => mode' \in EditModes \cup {"CommitList"}
        /\ (mode' # mode /\ mode \notin {"CommitList", "ActionMenu"}) =>
             mode' = "CommitList"]_vars

\* C26 witness: the Execute outcome produced in Preview, after RewordEdit and
\* ReorderMode were passed through (a saved reword, a changed display order).
C26_Witness ==
  /\ result = "Execute"
  /\ mode = "Preview"
  /\ \E i \in Idx(entries) : entries[i].action.kind = "Reword"
  /\ commits # [i \in CommitIds |-> i]
\* the plans es and es2 differ at most at position p
OnlyAt(es, es2, p) == \A i \in Idx(es) : i # p => es2[i] = es[i]

\* C27: a step of ActionMenu, RewordEdit or SplitView changes at most the
\* entry under the cursor, a step of SquashTarget at most the entry of the
\* squash source (and never the entry under the cursor when that is another
\* one), and no step of CommitList changes an entry.
C27_OneEntryPerAction ==
  [][/\ mode \in {"ActionMenu", "RewordEdit", "SplitView"} => OnlyAt(entries, entries', cursor)
     /\ mode = "SquashTarget" =>
          /\ OnlyAt(entries, entries', squash_source)
          /\ cursor # squash_source => entries'[cursor] = entries[cursor]
     /\ mode = "CommitList" => entries' = entries]_vars

\* C27 witness: a squash has just been written to the source entry while the
\* target and the third commit hold actions of their own.
C27_Witness ==
  /\ mode = "CommitList"
  /\ status = "squash {} into {}"
  /\ cursor # squash_source
  /\ entries[squash_source].action.kind = "Squash"
  /\ \A i \in Idx(entries) : entries[i].action.kind # "Pick"
\* the entry an assignment of an action of kind k at position p produces on
\* an all-Pick plan: it is made of the position and of what was typed in the
\* sub-state, and of no entry
AssignedAlone(k, p) ==
  [original_idx |-> p,
   action |->
     CASE k = "Pick" -> [kind |-> "Pick"]
       [] k = "Drop" -> [kind |-> "Drop"]
       [] k = "Edit" -> [kind |-> "Edit"]
       [] k = "Reword" -> [kind |-> "Reword", msg |-> reword_buffer]
       [] k = "Fixup" -> [kind |-> "Fixup", into_idx |-> p - 1]
       [] k = "Squash" -> [kind |-> "Squash", into_idx |-> cursor, message |-> None]
       [] k = "Split" -> [kind |-> "Split",
                          groups |-> BuildGroups(hunk_groups, split_messages)]]

\* C28: outside ReorderMode, an entry that a step changes becomes the entry
\* the same assignment produces on an all-Pick plan, whatever action the entry
\* held before; and the sub-states start from the commit alone: RewordEdit
\* from its message, SplitView from ungrouped hunks and empty messages.
C28_ReassignReplaces ==
  [][/\ mode # "ReorderMode" =>
          \A p \in Idx(entries) :
            entries'[p] # entries[p] =>
              entries'[p] = AssignedAlone(entries'[p].action.kind, p)
     /\ (mode' # mode /\ mode' = "RewordEdit") =>
          reword_buffer' = CommitMessage(commits[cursor])
     /\ (mode' # mode /\ mode' = "SplitView") =>
          /\ \A j \in Idx(hunk_groups') : hunk_groups'[j] = 0
          /\ \A g \in Idx(split_messages') : split_messages'[g] = ""
          /\ next_group' = 1]_vars

\* C28 witness: after eight keys the newest commit, which held Reword("w1"),
\* holds a Squash without message, all other entries being Pick.
C28_Witness ==
  /\ keys = 8
  /\ mode = "CommitList"
  /\ status = "squash {} into {}"
  /\ squash_source = 0
  /\ reword_buffer \in TypedTexts
  /\ entries[0] = [original_idx |-> 0,
                   action |-> [kind |-> "Squash", into_idx |-> cursor, message |-> None]]
  /\ \A i \in Idx(entries) : i # 0 => entries[i].action.kind = "Pick"
\* the executor was called: it has left its first statement, or a temporary
\* directory or a rebase of it exists
ExecutorStarted == x_pc # "idle" \/ x_tmp \/ x_engine # EngineIdle

\* C25: the executor is started only with the Execute outcome, which is
\* produced in Preview; Preview is open, and Execute is returned, only on a
\* plan with a non-Pick entry; and after Cancel the executor is never started.
C25_ExecuteOnlyAfterConfirm ==
  /\ ExecutorStarted => (result = "Execute" /\ mode = "Preview" /\ has_actions)
  /\ mode = "Preview" => has_actions
  /\ result = "Execute" => has_actions
  /\ result = "Cancel" => ~ExecutorStarted

\* C25 witness: the command has returned Ok after a confirmed plan was
\* executed: the rebase is done and the temporary directory is removed again.
C25_Witness ==
  /\ c_pc = "returned"
  /\ c_ret = "Ok"
  /\ result = "Execute"
  /\ x_outcome = "Ok"
  /\ x_engine.stop = "done"
  /\ ~x_tmp

\* the repository has uncommitted changes: a status entry that is not an
\* ignored file
Uncommitted(repo) == repo.flags \ {"IGNORED"} # {}

\* C29: on a detached HEAD or with uncommitted changes the command does not
\* get past validate_state: no commits are loaded, no key is handled, the
\* executor is not started, and the command returns an error.
C29_GuardRailsFirst ==
  (c_repo.detached \/ Uncommitted(c_repo)) =>
    /\ c_pc \in {"validate_state", "returned"}
    /\ c_pc = "returned" => c_ret = "Err"
    /\ ~c_loaded
    /\ keys = 0
    /\ ~ExecutorStarted

\* the branch has an upstream, and a touched commit is its tip or an ancestor
\* of its tip
TouchedIsPushed ==
  /\ c_upstream.head_ok
  /\ c_upstream.tracking # "none"
  /\ \E e \in {entries[i] : i \in Idx(entries)} :
       /\ e.action.kind # "Pick"
       /\ e.original_idx >= c_upstream.tracking_tip

\* C30: the guard warns exactly when a touched commit is the upstream tip or
\* an ancestor of it, and whatever it finds the executor is called next with
\* the same plan.
C30_GuardWarnsIffPushed ==
  [][/\ c_pc = "warn_pushed_commits" =>
          /\ c_warned' = TouchedIsPushed
          /\ c_pc' = "execute_craft_plan"
          /\ entries' = entries
     /\ (c_pc = "execute_craft_plan" /\ x_pc = "idle") =>
          /\ x_pc' = "start"
          /\ entries' = entries]_vars
\* C31: the step of the action menu that reports a failed or empty hunk
\* decomposition returns to CommitList, changes no entry, adds nothing to the
\* hunk cache and does not end the session; and SplitView is entered only for
\* a commit that has hunks.
C31_SplitAbortLeavesPlan ==
  [][/\ (mode = "ActionMenu" /\ status' \in {"no hunks to split", "hunk parse error: {}"}) =>
          /\ mode' = "CommitList"
          /\ entries' = entries
          /\ hunks_cache' = hunks_cache
          /\ result' = "none"
     /\ (mode = "ActionMenu" /\ mode' = "SplitView") =>
          VLen(RepoHunks(commits[cursor])) > 0]_vars

\* C31 witness: the split of a commit without hunks has just been refused on
\* a plan that holds an action; the commit has no cache entry.
C31_Witness ==
  /\ mode = "CommitList"
  /\ status = "no hunks to split"
  /\ result = "none"
  /\ has_actions
  /\ cursor \notin Idx(hunks_cache)
\* the diff holds a header or a line of origin '+', '-' or ' ' that is not
\* valid UTF-8
Undecodable(diff) ==
  \E j \in Idx(diff) :
    \/ ~diff[j].header.utf8
    \/ \E i \in Idx(diff[j].lines) :
         /\ diff[j].lines[i].origin \in {"+", "-", " "}
         /\ ~diff[j].lines[i].content.utf8

\* C32: once get_commit_hunks has returned for a diff with an undecodable
\* header or line, what it returned is an error.
C32_UndecodableIsError ==
  (d_pc = "returned" /\ Undecodable(d_diff)) => ~d_result.ok
\* C33: in an Execute outcome, for every Split entry the hunk cache has a
\* list under the entry's original_idx, the key write_split_automation looks
\* up, and that list is the decomposition of the commit loaded at that index.
C33_SplitCacheMatchesCommit ==
  result = "Execute" =>
    \A i \in Idx(entries) :
      entries[i].action.kind = "Split" =>
        /\ entries[i].original_idx \in Idx(hunks_cache)
        /\ hunks_cache[entries[i].original_idx] = RepoHunks(entries[i].original_idx)
C33_Counterexample ==
  /\ result = "Execute"
  /\ \E i \in Idx(entries) :
       /\ entries[i].action.kind = "Split"
       /\ entries[i].original_idx \in Idx(hunks_cache)
       /\ hunks_cache[entries[i].original_idx] # RepoHunks(entries[i].original_idx)
       /\ hunks_cache[entries[i].original_idx] = RepoHunks(commits[i])
       /\ commits[i] # entries[i].original_idx
\* C34: in the todo the sequence transform produces for an executed plan,
\* the squash or fixup line of every Squash or Fixup entry is directly
\* preceded by the line of the commit the entry's into_idx designates.
C34_FixupFollowsTarget ==
  result = "Execute" =>
    \A i \in Idx(entries) :
      entries[i].action.kind \in {"Squash", "Fixup"} =>
        \E n \in 2..Len(PlanTodo) :
          /\ PlanTodo[n].sha = entries[i].original_idx
          /\ PlanTodo[n].keyword \in {"squash", "fixup"}
          /\ PlanTodo[n - 1].sha = entries[i].action.into_idx

\* a plan without any reorder whose only action is a Fixup on the second row:
\* the fixup line follows the line of the older commit 2, not of commit 0
C34_Counterexample ==
  /\ result = "Execute"
  /\ commits = [i \in CommitIds |-> i]
  /\ entries = [i \in CommitIds |-> IF i = 1 THEN TodoEntry(1, Fixup(0)) ELSE TodoEntryPick(i)]
  /\ PlanTodo[1] = PickLine(2)
  /\ PlanTodo[2] = TodoLine("fixup", 1, {1})
  /\ PlanTodo[3] = PickLine(0)
\* C35: in the todo of an executed plan the first (oldest) line is never a
\* squash or fixup, and every squash or fixup line has an earlier line that
\* leaves a commit, also after drops.
C35_FirstLineNeverFixup ==
  result = "Execute" =>
    /\ ~IsFixupLike(PlanTodo[1])
    /\ \A n \in DOMAIN PlanTodo : IsFixupLike(PlanTodo[n]) => HasPrevious(PlanTodo, n)

\* a Fixup accepted on the last row, the oldest loaded commit: its line opens the todo
C35_Counterexample ==
  /\ result = "Execute"
  /\ commits = [i \in CommitIds |-> i]
  /\ entries[NumCommits - 1] = TodoEntry(NumCommits - 1, Fixup(NumCommits - 2))
  /\ PlanTodo[1] = TodoLine("fixup", NumCommits - 1, {NumCommits - 1})
\* C36: whenever the executor returns success the external rebase has run to
\* completion; the repository is not left paused in the middle of a rebase,
\* for plans with Edit actions and plans with Split actions alike.
C36_SuccessMeansCompleted ==
  x_outcome = "Ok" => x_engine.stop = "done"

\* Edit on the oldest commit and Split on the newest: the recipe is consumed
\* at the Edit stop, and success is returned while the engine waits at the
\* edit stop of the Split commit
C36_Counterexample ==
  /\ x_outcome = "Ok"
  /\ x_engine.stop = "edit"
  /\ x_engine.todo[x_engine.at].sha = 0
  /\ entries[0].action.kind = "Split"
  /\ entries[1].action = Pick
  /\ entries[2].action = Edit
  /\ x_ran.ran
  /\ ~x_tmp
\* C37: every engine step that opens the message editor for a commit runs the
\* generated message injector, also after the split recipe has resumed the
\* paused rebase, and a Reword commit replayed then receives its planned message.
C37_EditorAlwaysInjector ==
  \A n \in DOMAIN x_log :
    /\ x_log[n].hooked
    /\ PlannedAction(x_log[n].sha).kind = "Reword" =>
         (x_ran.ran => x_log[n].served = PlannedAction(x_log[n].sha).msg)

\* Split on the second commit, Reword on the newest: the recipe's continue
\* replays the Reword with another editor and the planned message is not served
C37_Counterexample ==
  /\ x_outcome = "Ok"
  /\ x_engine.stop = "done"
  /\ entries[2].action = Pick
  /\ entries[1].action.kind = "Split"
  /\ entries[0].action = Reword("w1")
  /\ x_msgs = [k \in 0..0 |-> "w1"]
  /\ x_ran = [ran |-> TRUE, stop |-> "edit", sha |-> 1]
  /\ x_log = <<OtherEditor(0)>>
\* C38: a run in which the split recipe was started and the rebase then
\* stopped on a conflict, or a group patch did not apply, fails with
\* RebaseConflict; every failing run of the rebase ends as RebaseConflict or
\* RebaseFailed.
C38_ClassificationCoversRecipe ==
  (x_pc = "returned" /\ x_ran.ran) =>
    /\ x_engine.stop = "conflict" => x_outcome = "RebaseConflict"
    /\ x_outcome # "Ok" => x_outcome \in {"RebaseConflict", "RebaseFailed"}

\* the initial invocation stopped at the Split commit without a conflict, the
\* recipe's continue then conflicted on the newest commit
C38_Counterexample ==
  /\ x_pc = "returned"
  /\ x_outcome = "SplitAutomationFailed"
  /\ x_ran = [ran |-> TRUE, stop |-> "edit", sha |-> 1]
  /\ x_output.success
  /\ x_engine.stop = "conflict"
  /\ x_engine.todo[x_engine.at].sha = 0
  /\ x_tmp
\* C39: no sequence of keys makes the Plan Builder index out of range: the
\* cursor is below the number of commits; in SplitView the hunk cursor is
\* below the number of hunks and every hunk's group number is an index of the
\* group-message vector; while a group message is edited split_msg_cursor is
\* below the vector's length of 10, and no index operation panics.
C39_IndicesInRange ==
  /\ cursor < VLen(commits)
  /\ mode = "SplitView" =>
       /\ hunk_cursor < VLen(hunks)
       /\ \A i \in Idx(hunk_groups) : hunk_groups[i] \in Idx(split_messages)
       /\ split_editing_msg => split_msg_cursor < 10
  /\ result # "Panic"

\* group 9 by its digit, then a new group, number 10, then 'n' on that hunk
C39_Counterexample ==
  /\ mode = "SplitView"
  /\ VLen(split_messages) = 10
  /\ hunk_groups[hunk_cursor] = 10
  /\ split_editing_msg
  /\ split_msg_cursor = 10
  /\ result = "Panic"
  /\ keys = 5
====
